---- MODULE Spec2Model ----
(***************************************************************************)
(* Hippocampus: per-dimension sorted-index vector collection.              *)
(*                                                                         *)
(* The model covers the index engine and the query engine of               *)
(* src/src/types/types.go (Tree), the container writer and reader of       *)
(* src/src/storage/storage.go (FileStorage) and the write-back client of   *)
(* src/unnamed/part_005 (Client).                                          *)
(*                                                                         *)
(* Numbers.  Vector components, epsilon and distances are exact numbers on *)
(* an integer grid (one unit is one grid step of the float32 values the    *)
(* program handles); a distance d is carried as its square, so that        *)
(* d <= eps * sqrt(D) * (1 - tau) is decided without rounding.  The        *)
(* threshold tau is the fraction num/den.                                  *)
(* Positions of nodes are 0-based as in the code; dimensions are 1-based.  *)
(***************************************************************************)
EXTENDS Integers, Sequences, FiniteSets, TLC

VARIABLES
    Dimensions,   \* Client.Dimensions (facade) / the declared D
    cachedTree,   \* Client.cachedTree: <<>> is nil, <<t>> holds the Tree t
    dirty,        \* Client.dirty
    file,         \* the container file at Client.Storage.path
    NumCPU,       \* runtime.NumCPU() of the process
    last,         \* the last call: its inputs, its error and its results
    saving,       \* the FileStorage.Save in progress on the path, if any
    storage,      \* the MmapStorage opened on the path, if any
    callers       \* the goroutines inside MmapStorage.GetOrBuildIndex

vars == <<Dimensions, cachedTree, dirty, file, NumCPU, last, saving, storage, callers>>

(***************************************************************************)
(* Bounds of the model.                                                    *)
(***************************************************************************)
MaxNodes == 3   \* nodes a collection holds at most
MaxBatch == 2   \* items of one batch_insert at most
MaxCPU   == 3   \* runtime.NumCPU() ranges over 1..MaxCPU
MaxK     == 2   \* top-k ranges over 1..MaxK

(***************************************************************************)
(* Program constants.                                                      *)
(***************************************************************************)
DefaultDimensions == 512

NoError           == "nil"
DimensionMismatch == "dimension mismatch"
\* a run-time panic of the call (it ends the process unless recovered)
PanicError == "panic"

(***************************************************************************)
(* Generic helpers.                                                        *)
(***************************************************************************)
Min(a, b) == IF a < b THEN a ELSE b

Range(s) == {s[i] : i \in DOMAIN s}

Perms(S) ==
    {f \in [1..Cardinality(S) -> S] : \A i, j \in DOMAIN f : i # j => f[i] # f[j]}

(***************************************************************************)
(* Metadata values.  A value of a Metadata map is a Go interface value: a  *)
(* dynamic type (kind) and a value, written as its JSON text.              *)
(***************************************************************************)
NilMetadata == << >>

StringValue(s) == [kind |-> "string", text |-> s]
IntValue(s)    == [kind |-> "int", text |-> s]
Float64Value(s) == [kind |-> "float64", text |-> s]
BoolValue(s)    == [kind |-> "bool", text |-> s]
StringSliceValue(s) == [kind |-> "[]string", text |-> s]
InterfaceSliceValue(s) == [kind |-> "[]interface{}", text |-> s]

\* the dynamic types whose values Go cannot compare with == and !=
SliceKinds == {"[]string", "[]interface{}"}

(***************************************************************************)
(* time.Time: the wall-clock instant and whether a monotonic reading is    *)
(* attached (time.Now() attaches one, decoding never does).                *)
(***************************************************************************)
TimeNow(instant) == [wall |-> instant, mono |-> TRUE]
ZeroTime == [wall |-> 0, mono |-> FALSE]

Node(key, value, metadata, timestamp) ==
    [Key |-> key, Value |-> value, Metadata |-> metadata, Timestamp |-> timestamp]

(***************************************************************************)
(* Filter; NilFilter is the nil *Filter.                                   *)
(***************************************************************************)
NilFilter == [isNil |-> TRUE, Metadata |-> NilMetadata,
              hasFrom |-> FALSE, TimestampFrom |-> 0,
              hasTo |-> FALSE, TimestampTo |-> 0]

MetadataFilter(m) == [NilFilter EXCEPT !.isNil = FALSE, !.Metadata = m]

MatchesFilter(n, f) ==
    IF f.isNil THEN TRUE
    ELSE /\ ~(f.hasFrom /\ n.Timestamp.wall < f.TimestampFrom)
         /\ ~(f.hasTo /\ n.Timestamp.wall > f.TimestampTo)
         /\ \A key \in DOMAIN f.Metadata :
                /\ key \in DOMAIN n.Metadata
                /\ n.Metadata[key] = f.Metadata[key]

\* actualValue != expectedValue on two interface values of the same slice
\* type is a run-time panic (comparing uncomparable type)
Uncomparable(n, f, key) ==
    /\ key \in DOMAIN n.Metadata
    /\ n.Metadata[key].kind = f.Metadata[key].kind
    /\ n.Metadata[key].kind \in SliceKinds

\* the entry of the filter at key makes MatchesFilter return false
Mismatch(n, f, key) ==
    \/ key \notin DOMAIN n.Metadata
    \/ (~Uncomparable(n, f, key) /\ n.Metadata[key] # f.Metadata[key])

\* range f.Metadata visits the entries in an unspecified order and returns
\* at the first mismatch: the call panics in the orders in which an
\* uncomparable entry comes before every mismatch
MatchesFilterMayPanic(n, f) ==
    /\ ~f.isNil
    /\ ~(f.hasFrom /\ n.Timestamp.wall < f.TimestampFrom)
    /\ ~(f.hasTo /\ n.Timestamp.wall > f.TimestampTo)
    /\ \E key \in DOMAIN f.Metadata : Uncomparable(n, f, key)

MatchesFilterMustPanic(n, f) ==
    /\ MatchesFilterMayPanic(n, f)
    /\ ~\E key \in DOMAIN f.Metadata : Mismatch(n, f, key)

(***************************************************************************)
(* Tree.                                                                   *)
(***************************************************************************)
NewTree(dimensions) ==
    LET d == IF dimensions <= 0 THEN DefaultDimensions ELSE dimensions
    IN  [Dimensions |-> d,
         Nodes      |-> << >>,
         Index      |-> [dim \in 1..d |-> << >>],
         indexDirty |-> FALSE]

\* sort.Search(n, f): binary search for the lowest i in 0..n with f[i] true;
\* f is the predicate's table over 0..n-1.
RECURSIVE SortSearchLoop(_, _, _)
SortSearchLoop(i, j, f) ==
    IF i < j
    THEN LET h == (i + j) \div 2
         IN  IF ~f[h] THEN SortSearchLoop(h + 1, j, f) ELSE SortSearchLoop(i, h, f)
    ELSE i

SortSearch(n, f) == SortSearchLoop(0, n, f)

\* t.Nodes[idx].Key[dim] for a 0-based position idx
KeyOf(nodes, idx, dim) == nodes[idx + 1].Key[dim]

\* the insertion position of the incremental insert in one dimension
\* the insert position were it always the end of the permutation
InsertPos_End(nodes, index, dim, key) == Len(index)

\* the insert position were it the first one past the equal keys
InsertPos_Upper(nodes, index, dim, key) ==
    SortSearch(Len(index),
               [i \in 0..(Len(index) - 1) |-> KeyOf(nodes, index[i + 1], dim) > key[dim]])

InsertPos(nodes, index, dim, key) ==
    SortSearch(Len(index),
               [i \in 0..(Len(index) - 1) |-> KeyOf(nodes, index[i + 1], dim) >= key[dim]])

\* append(index, 0); copy(index[pos+1:], index[pos:]); index[pos] = nodeIdx
Splice(index, pos, nodeIdx) ==
    SubSeq(index, 1, pos) \o <<nodeIdx>> \o SubSeq(index, pos + 1, Len(index))

\* the insert were the length of the key not checked
InsertWithMetadata_NoCheck(t, key, value, metadata, timestamp) ==
    [err  |-> NoError,
     tree |-> [t EXCEPT !.Nodes = Append(t.Nodes, Node(key, value, metadata, timestamp)),
                        !.indexDirty = TRUE]]

InsertWithMetadata(t, key, value, metadata, timestamp) ==
    IF Len(key) # t.Dimensions
    THEN [err |-> DimensionMismatch, tree |-> t]
    ELSE LET nodeIdx == Len(t.Nodes)
             nodes   == Append(t.Nodes, Node(key, value, metadata, timestamp))
         IN  IF Len(t.Index[1]) > 0 /\ ~t.indexDirty
             THEN [err  |-> NoError,
                   tree |-> [t EXCEPT
                               !.Nodes = nodes,
                               !.Index = [dim \in 1..t.Dimensions |->
                                            Splice(t.Index[dim],
                                                   InsertPos(nodes, t.Index[dim], dim, key),
                                                   nodeIdx)]]]
             ELSE [err  |-> NoError,
                   tree |-> [t EXCEPT !.Nodes = nodes, !.indexDirty = TRUE]]

\* sort.Slice(index, less) with less(a, b) == key[dim](a) < key[dim](b).
\* For a slice of at most 12 elements sort.Slice is an insertion sort: each
\* element moves left past the elements that are strictly greater.
RECURSIVE InsertSorted(_, _, _, _)
InsertSorted(index, j, nodes, dim) ==
    IF j > 1 /\ KeyOf(nodes, index[j], dim) < KeyOf(nodes, index[j - 1], dim)
    THEN InsertSorted([index EXCEPT ![j] = index[j - 1], ![j - 1] = index[j]],
                      j - 1, nodes, dim)
    ELSE index

RECURSIVE InsertionSortFrom(_, _, _, _)
InsertionSortFrom(index, i, nodes, dim) ==
    IF i > Len(index) THEN index
    ELSE InsertionSortFrom(InsertSorted(index, i, nodes, dim), i + 1, nodes, dim)

SortSlice(index, nodes, dim) == InsertionSortFrom(index, 2, nodes, dim)

RebuildIndex(t) ==
    [t EXCEPT
        !.Index = [dim \in 1..t.Dimensions |->
                     SortSlice([i \in 1..Len(t.Nodes) |-> i - 1], t.Nodes, dim)],
        !.indexDirty = FALSE]

\* the search were it to scan without ensuring the index
ensureIndex_Skipped(t) == t

ensureIndex(t) ==
    IF t.indexDirty \/ Len(t.Index) = 0 \/ Len(t.Index[1]) = 0
    THEN RebuildIndex(t)
    ELSE t

(***************************************************************************)
(* Query engine.  A Go map[int32]int is a function from the positions      *)
(* present in the map to their counts.                                     *)
(***************************************************************************)
EmptyMap == [p \in {} |-> 0]

Increment(m, p) ==
    IF p \in DOMAIN m THEN [m EXCEPT ![p] = @ + 1] ELSE m @@ (p :> 1)

\* index[startIdx..endIdx-1] of one dimension: the eps-interval scan
DimensionScan(t, dim, query, epsilon) ==
    LET index    == t.Index[dim]
        minVal   == query[dim] - epsilon
        maxVal   == query[dim] + epsilon
        startIdx == SortSearch(Len(index),
                        [i \in 0..(Len(index) - 1) |->
                            KeyOf(t.Nodes, index[i + 1], dim) >= minVal])
        endIdx   == SortSearch(Len(index),
                        [i \in 0..(Len(index) - 1) |->
                            KeyOf(t.Nodes, index[i + 1], dim) > maxVal])
    IN  IF startIdx < endIdx THEN SubSeq(index, startIdx + 1, endIdx) ELSE << >>

\* localCandidates[nodeIdx]++ for every scanned entry
RECURSIVE CountEntries(_, _)
CountEntries(m, entries) ==
    IF entries = << >> THEN m
    ELSE CountEntries(Increment(m, Head(entries)), Tail(entries))

\* for dim := startDim; dim < endDim; dim++ (0-based dims as in the code)
RECURSIVE ScanDimensions(_, _, _, _, _, _)
ScanDimensions(m, t, startDim, endDim, query, epsilon) ==
    IF startDim < endDim
    THEN ScanDimensions(CountEntries(m, DimensionScan(t, startDim + 1, query, epsilon)),
                        t, startDim + 1, endDim, query, epsilon)
    ELSE m

\* candidateSet[nodeIdx] += count, under the mutex
MergeLocal(candidateSet, localCandidates) ==
    [p \in (DOMAIN candidateSet) \cup (DOMAIN localCandidates) |->
        (IF p \in DOMAIN candidateSet THEN candidateSet[p] ELSE 0)
        + (IF p \in DOMAIN localCandidates THEN localCandidates[p] ELSE 0)]

\* the block of dimensions of one worker and its local map
WorkerLocal(t, worker, dimsPerWorker, query, epsilon) ==
    LET start == worker * dimsPerWorker
        end   == Min(start + dimsPerWorker, t.Dimensions)
    IN  ScanDimensions(EmptyMap, t, start, end, query, epsilon)

\* the workers reach the mutex in the order mergeOrder
RECURSIVE MergeWorkers(_, _, _, _, _, _)
MergeWorkers(candidateSet, mergeOrder, t, dimsPerWorker, query, epsilon) ==
    IF mergeOrder = << >> THEN candidateSet
    ELSE MergeWorkers(
            MergeLocal(candidateSet,
                       WorkerLocal(t, Head(mergeOrder), dimsPerWorker, query, epsilon)),
            Tail(mergeOrder), t, dimsPerWorker, query, epsilon)

NumWorkers(t, numCPU) == Min(numCPU, t.Dimensions)

parallelDimensionSearch(t, query, epsilon, numCPU, mergeOrder) ==
    LET numWorkers    == NumWorkers(t, numCPU)
        dimsPerWorker == (t.Dimensions + numWorkers - 1) \div numWorkers
    IN  MergeWorkers(EmptyMap, mergeOrder, t, dimsPerWorker, query, epsilon)

\* the single-threaded scan of the sequential Search
sequentialDimensionSearch(t, query, epsilon) ==
    ScanDimensions(EmptyMap, t, 0, t.Dimensions, query, epsilon)

RECURSIVE SumSquaresTo(_, _, _)
SumSquaresTo(query, key, dim) ==
    IF dim = 0 THEN 0
    ELSE SumSquaresTo(query, key, dim - 1)
         + (query[dim] - key[dim]) * (query[dim] - key[dim])

\* the square of the Euclidean distance
SumSquares(query, key) == SumSquaresTo(query, key, Len(key))

\* mutant: the bound without the factor (1 - threshold)
WithinMaxAllowedDistance_NoThreshold(sumSquares, epsilon, threshold, dimensions) ==
    /\ epsilon >= 0
    /\ sumSquares <= epsilon * epsilon * dimensions

\* distance <= epsilon * sqrt(Dimensions) * (1 - threshold)
WithinMaxAllowedDistance(sumSquares, epsilon, threshold, dimensions) ==
    LET m == epsilon * (threshold.den - threshold.num)
    IN  /\ m >= 0
        /\ sumSquares * threshold.den * threshold.den <= m * m * dimensions

\* mutant: a node hit in some dimension is a candidate (count > 0)
Candidates_AnyDimension(t, candidateSet, query, epsilon, threshold, filter) ==
    {nodeIdx \in DOMAIN candidateSet :
        /\ candidateSet[nodeIdx] > 0
        /\ MatchesFilter(t.Nodes[nodeIdx + 1], filter)
        /\ WithinMaxAllowedDistance(SumSquares(query, t.Nodes[nodeIdx + 1].Key),
                                    epsilon, threshold, t.Dimensions)}

\* mutant: the filter is not applied
Candidates_NoFilter(t, candidateSet, query, epsilon, threshold, filter) ==
    {nodeIdx \in DOMAIN candidateSet :
        /\ candidateSet[nodeIdx] = t.Dimensions
        /\ WithinMaxAllowedDistance(SumSquares(query, t.Nodes[nodeIdx + 1].Key),
                                    epsilon, threshold, t.Dimensions)}

\* the positions that pass the count, the filter and the distance bound
Candidates(t, candidateSet, query, epsilon, threshold, filter) ==
    {nodeIdx \in DOMAIN candidateSet :
        /\ candidateSet[nodeIdx] = t.Dimensions
        /\ MatchesFilter(t.Nodes[nodeIdx + 1], filter)
        /\ WithinMaxAllowedDistance(SumSquares(query, t.Nodes[nodeIdx + 1].Key),
                                    epsilon, threshold, t.Dimensions)}

\* The candidates are collected in the iteration order of the Go map, which
\* is unspecified, and sorted by sort.Slice (not stable) on the distance
\* alone: every order ascending in distance is an outcome.
SortedCandidates(t, candidates, query) ==
    {s \in Perms(candidates) :
        \A i \in 1..(Len(s) - 1) :
            ~(SumSquares(query, t.Nodes[s[i + 1] + 1].Key)
                < SumSquares(query, t.Nodes[s[i] + 1].Key))}

Truncate(s, topK) == SubSeq(s, 1, Min(topK, Len(s)))

SearchOutcome(err, t, candidateSet, results) ==
    [err |-> err, tree |-> t, hits |-> candidateSet, results |-> results]

\* what the search returns after the index is ensured
\* the positions the filter is applied to: those counted in every dimension
FilteredNodes(t, candidateSet) ==
    {nodeIdx \in DOMAIN candidateSet : candidateSet[nodeIdx] = t.Dimensions}

\* make([]scoredNode, 0, topK*2) panics when topK is negative; a panic of
\* MatchesFilter ends the search
SearchResults(t, candidateSet, query, epsilon, threshold, topK, filter) ==
    IF topK < 0
    THEN {SearchOutcome(PanicError, t, candidateSet, << >>)}
    ELSE (IF \E nodeIdx \in FilteredNodes(t, candidateSet) :
                MatchesFilterMayPanic(t.Nodes[nodeIdx + 1], filter)
          THEN {SearchOutcome(PanicError, t, candidateSet, << >>)}
          ELSE {})
         \cup
         (IF \E nodeIdx \in FilteredNodes(t, candidateSet) :
                MatchesFilterMustPanic(t.Nodes[nodeIdx + 1], filter)
          THEN {}
          ELSE {SearchOutcome(NoError, t, candidateSet, Truncate(s, topK)) :
                  s \in SortedCandidates(t,
                           Candidates(t, candidateSet, query, epsilon, threshold, filter),
                           query)})

\* Tree.SearchWithFilter: the set of its outcomes (results are positions)
SearchWithFilter(t, query, epsilon, threshold, topK, filter, numCPU, mergeOrder) ==
    IF Len(query) # t.Dimensions
    THEN {SearchOutcome(DimensionMismatch, t, EmptyMap, << >>)}
    ELSE IF Len(t.Nodes) = 0
    THEN {SearchOutcome(NoError, t, EmptyMap, << >>)}
    ELSE LET t2 == ensureIndex(t)
         IN  SearchResults(t2,
                 parallelDimensionSearch(t2, query, epsilon, numCPU, mergeOrder),
                 query, epsilon, threshold, topK, filter)

\* Tree.Search of the sequential variant (no filter, one thread)
SearchSequential(t, query, epsilon, threshold, topK) ==
    IF Len(query) # t.Dimensions
    THEN {SearchOutcome(DimensionMismatch, t, EmptyMap, << >>)}
    ELSE IF Len(t.Nodes) = 0
    THEN {SearchOutcome(NoError, t, EmptyMap, << >>)}
    ELSE LET t2 == ensureIndex(t)
         IN  SearchResults(t2, sequentialDimensionSearch(t2, query, epsilon),
                           query, epsilon, threshold, topK, NilFilter)

\* Tree.BatchInsert
\* the wall clock read by time.Now(): it advances with every stored node
Clock(nodes) == Len(nodes) + 1

\* the batch were it appended last item first
AppendItems_LastFirst(nodes, items) ==
    nodes \o [i \in 1..Len(items) |->
                Node(items[Len(items) + 1 - i].Key, items[Len(items) + 1 - i].Value,
                     items[Len(items) + 1 - i].Metadata, TimeNow(Len(nodes) + i))]

RECURSIVE AppendItems(_, _)
AppendItems(nodes, items) ==
    IF items = << >> THEN nodes
    ELSE AppendItems(
            Append(nodes, Node(Head(items).Key, Head(items).Value,
                               Head(items).Metadata, TimeNow(Clock(nodes)))),
            Tail(items))

TreeBatchInsert(t, items) ==
    IF \E i \in DOMAIN items : Len(items[i].Key) # t.Dimensions
    THEN [err |-> DimensionMismatch, tree |-> t]
    ELSE [err |-> NoError,
          tree |-> RebuildIndex([t EXCEPT !.Nodes = AppendItems(t.Nodes, items)])]

(***************************************************************************)
(* Inputs of the calls.                                                    *)
(***************************************************************************)
MetaCatA  == "cat" :> StringValue("a")
MetaCatB  == "cat" :> StringValue("b")
MetaIndex == "index" :> IntValue("1")

Item(key, value, metadata) == [Key |-> key, Value |-> value, Metadata |-> metadata]

\* D = 3: the nodes A, B, C of the 3-D scenario in units of 0.05;
\* D = 2: two nodes at the origin that differ in metadata and one apart;
\* D = 1: two points, one with a number in its metadata;
\* D = 4: one point.
Items ==
    {Item(<<1>>, "q", MetaIndex), Item(<<0>>, "p", NilMetadata),
     Item(<<0, 0, 0, 0>>, "w", NilMetadata),
     Item(<<0, 0>>, "x", MetaCatA), Item(<<0, 0>>, "y", MetaCatB),
     Item(<<1, 1>>, "z", NilMetadata),
     Item(<<2, 4, 6>>, "A", NilMetadata), Item(<<2, 6, 4>>, "B", NilMetadata),
     Item(<<18, 2, 1>>, "C", NilMetadata)}

\* <<2, 0, 4>> has B outside its eps-box for eps = 4 and inside the radius
Queries == {<<1>>, <<0, 0>>, <<1, 0>>, <<2, 5, 5>>, <<2, 4, 6>>, <<2, 0, 4>>}

\* the items and queries offered to a collection of dimension d: those of
\* length d and one of another length
InputItems(d) ==
    {i \in Items : Len(i.Key) = d}
    \cup {IF d = 3 THEN Item(<<1>>, "q", MetaIndex) ELSE Item(<<2, 4, 6>>, "A", NilMetadata)}

InputQueries(d) ==
    {q \in Queries : Len(q) = d} \cup {IF d = 3 THEN <<0, 0>> ELSE <<2, 5, 5>>}

InputBatches(d) ==
    UNION {[1..n -> InputItems(d)] : n \in 0..MaxBatch}

Epsilons(d) == IF d = 3 THEN {0, 4} ELSE {0, 1}

Thresholds == {[num |-> 0, den |-> 1], [num |-> 1, den |-> 2]}

Filters(d) ==
    IF d = 2 THEN {NilFilter, MetadataFilter(MetaCatA)}
    ELSE IF d = 1 THEN {NilFilter, MetadataFilter(MetaIndex)}
    ELSE {NilFilter}

(***************************************************************************)
(* The record of the last call.                                            *)
(***************************************************************************)
NoCall ==
    [op |-> "none", err |-> NoError, key |-> << >>, items |-> << >>,
     epsilon |-> 0, threshold |-> [num |-> 0, den |-> 1], topK |-> 0,
     filter |-> NilFilter, workers |-> 0, hits |-> EmptyMap, results |-> << >>,
     declared |-> 0, count |-> 0]

InsertCall(err, item) ==
    [NoCall EXCEPT !.op = "insert", !.err = err, !.key = item.Key, !.items = <<item>>]

BatchCall(err, items) ==
    [NoCall EXCEPT !.op = "batch_insert", !.err = err, !.items = items]

SearchCall(op, o, query, epsilon, threshold, topK, filter, workers) ==
    [NoCall EXCEPT !.op = op, !.err = o.err, !.key = query, !.epsilon = epsilon,
                   !.threshold = threshold, !.topK = topK, !.filter = filter,
                   !.workers = workers, !.hits = o.hits, !.results = o.results]

FailedSearchCall(op, err, query) ==
    [NoCall EXCEPT !.op = op, !.err = err, !.key = query]

NoFile == [exists |-> FALSE, data |-> << >>]

(***************************************************************************)
(* The Tree used directly (index engine and query engine).                 *)
(***************************************************************************)
TreeDimensions == {2, 3}

Tree == cachedTree[1]

\* the processors of the host the tree-level specifications run on
HostCPU == 2

\* no Save in progress, no MmapStorage open, no goroutine in GetOrBuildIndex
NotSaving == [active |-> FALSE, pending |-> << >>, previous |-> NoFile, target |-> NoFile]

NoStorage == << >>

NoCallers == << >>

Idle ==
    /\ saving = NotSaving
    /\ storage = NoStorage
    /\ callers = NoCallers

TreeInitWith(cpus) ==
    \E d \in TreeDimensions :
        /\ Dimensions = d
        /\ cachedTree = <<NewTree(d)>>
        /\ dirty = FALSE
        /\ file = NoFile
        /\ NumCPU \in cpus
        /\ Idle
        /\ last = NoCall

TInsertOf(items) ==
    \E item \in items :
        LET r == InsertWithMetadata(Tree, item.Key, item.Value, item.Metadata,
                                    TimeNow(Clock(Tree.Nodes)))
        IN  /\ Len(r.tree.Nodes) <= MaxNodes
            /\ cachedTree' = <<r.tree>>
            /\ last' = InsertCall(r.err, item)
            /\ UNCHANGED <<Dimensions, dirty, file, NumCPU, saving, storage, callers>>

TInsert == TInsertOf(InputItems(Tree.Dimensions))

TBatchInsert ==
    \E items \in InputBatches(Tree.Dimensions) :
        /\ Len(Tree.Nodes) + Len(items) <= MaxNodes
        /\ LET r == TreeBatchInsert(Tree, items)
           IN  /\ cachedTree' = <<r.tree>>
               /\ last' = BatchCall(r.err, items)
        /\ UNCHANGED <<Dimensions, dirty, file, NumCPU, saving, storage, callers>>

\* Tree.SearchWithFilter with inputs from the given sets
TSearchOver(epsilons, thresholds, topKs, filters) ==
    \E query \in InputQueries(Tree.Dimensions) :
        \/ /\ Len(query) # Tree.Dimensions
           /\ \E o \in SearchWithFilter(Tree, query, 0, [num |-> 0, den |-> 1], 1,
                                        NilFilter, 1, <<0>>) :
                /\ cachedTree' = <<o.tree>>
                /\ last' = FailedSearchCall("search", o.err, query)
           /\ UNCHANGED <<Dimensions, dirty, file, NumCPU, saving, storage, callers>>
        \/ /\ Len(query) = Tree.Dimensions
           /\ \E epsilon \in epsilons, threshold \in thresholds,
                 topK \in topKs, filter \in filters :
                \E mergeOrder \in Perms(0..(NumWorkers(Tree, NumCPU) - 1)) :
                    \E o \in SearchWithFilter(Tree, query, epsilon, threshold, topK,
                                              filter, NumCPU, mergeOrder) :
                        /\ cachedTree' = <<o.tree>>
                        /\ last' = SearchCall("search", o, query, epsilon, threshold,
                                              topK, filter, NumWorkers(Tree, NumCPU))
           /\ UNCHANGED <<Dimensions, dirty, file, NumCPU, saving, storage, callers>>

TSearchWith(thresholds, topKs, filters) ==
    TSearchOver(Epsilons(Tree.Dimensions), thresholds, topKs, filters)

\* Tree.Search of the sequential variant with inputs from the given sets
TSearchSequentialWith(thresholds, topKs) ==
    \E query \in InputQueries(Tree.Dimensions) :
        \/ /\ Len(query) # Tree.Dimensions
           /\ \E o \in SearchSequential(Tree, query, 0, [num |-> 0, den |-> 1], 1) :
                /\ cachedTree' = <<o.tree>>
                /\ last' = FailedSearchCall("search_sequential", o.err, query)
           /\ UNCHANGED <<Dimensions, dirty, file, NumCPU, saving, storage, callers>>
        \/ /\ Len(query) = Tree.Dimensions
           /\ \E epsilon \in Epsilons(Tree.Dimensions), threshold \in thresholds,
                 topK \in topKs :
                \E o \in SearchSequential(Tree, query, epsilon, threshold, topK) :
                    /\ cachedTree' = <<o.tree>>
                    /\ last' = SearchCall("search_sequential", o, query, epsilon,
                                          threshold, topK, NilFilter, 1)
           /\ UNCHANGED <<Dimensions, dirty, file, NumCPU, saving, storage, callers>>

(***************************************************************************)
(* SpecTree: inserts, batch inserts and filtered searches on a Tree, on a  *)
(* host of HostCPU processors.                                             *)
(***************************************************************************)
TreeInit == TreeInitWith({HostCPU})

TSearch == TSearchWith(Thresholds, 1..MaxK, Filters(Tree.Dimensions))

TreeNext == TInsert \/ TBatchInsert \/ TSearch

SpecTree == TreeInit /\ [][TreeNext]_vars

(***************************************************************************)
(* SpecParallel: the parallel search next to the sequential search, for    *)
(* every number of processors; no filter, threshold 0, the largest top-k.  *)
(***************************************************************************)
ParallelInit == TreeInitWith(1..MaxCPU)

TSearchParallel == TSearchWith({[num |-> 0, den |-> 1]}, {MaxK}, {NilFilter})

TSearchSequential == TSearchSequentialWith({[num |-> 0, den |-> 1]}, {MaxK})

ParallelNext == TInsert \/ TBatchInsert \/ TSearchParallel \/ TSearchSequential

SpecParallel == ParallelInit /\ [][ParallelNext]_vars

(***************************************************************************)
(* SpecArguments: trees created with any dimension argument, and searches  *)
(* with arguments outside their meaningful ranges (negative epsilon, top-k *)
(* below 1, threshold outside [0, 1]).                                     *)
(***************************************************************************)
ArgDimensions == {0, 2}

ArgEpsilons == {-1, 1}

ArgThresholds == {[num |-> -1, den |-> 2], [num |-> 0, den |-> 1], [num |-> 3, den |-> 2]}

ArgTopKs == {-1, 0, 1}

NewCall(d) == [NoCall EXCEPT !.op = "new", !.declared = d]

ArgInit ==
    \E d \in ArgDimensions :
        /\ Dimensions = NewTree(d).Dimensions
        /\ cachedTree = <<NewTree(d)>>
        /\ dirty = FALSE
        /\ file = NoFile
        /\ NumCPU = HostCPU
        /\ last = NewCall(d)
        /\ Idle

\* NewTree(d)
TNew ==
    \E d \in ArgDimensions :
        /\ Dimensions' = NewTree(d).Dimensions
        /\ cachedTree' = <<NewTree(d)>>
        /\ last' = NewCall(d)
        /\ UNCHANGED <<dirty, file, NumCPU, saving, storage, callers>>

TSearchArguments == TSearchOver(ArgEpsilons, ArgThresholds, ArgTopKs, {NilFilter})

ArgNext == TNew \/ TInsert \/ TSearchArguments

SpecArguments == ArgInit /\ [][ArgNext]_vars

(***************************************************************************)
(* SpecFilter: a tree of D = 1 whose nodes carry metadata of every shape   *)
(* (string, number, boolean, array of strings), searched with filters of   *)
(* every shape.                                                            *)
(***************************************************************************)
MetaTags == ("tags" :> StringSliceValue("[a]")) @@ ("cat" :> StringValue("a"))
MetaFlag == "flag" :> BoolValue("true")

FilterItems ==
    {Item(<<1>>, "q", MetaIndex), Item(<<1>>, "t", MetaTags), Item(<<1>>, "f", MetaFlag),
     Item(<<0, 0>>, "x", MetaCatA)}

FilterFilters ==
    {NilFilter,
     MetadataFilter(MetaIndex),
     MetadataFilter("index" :> Float64Value("1")),
     MetadataFilter("tags" :> StringSliceValue("[a]")),
     MetadataFilter("tags" :> StringSliceValue("[b]")),
     MetadataFilter(("tags" :> StringSliceValue("[a]")) @@ ("cat" :> StringValue("b"))),
     MetadataFilter(MetaFlag),
     MetadataFilter("flag" :> BoolValue("false"))}

FilterInit ==
    /\ Dimensions = 1
    /\ cachedTree = <<NewTree(1)>>
    /\ dirty = FALSE
    /\ file = NoFile
    /\ NumCPU = HostCPU
    /\ last = NoCall
    /\ Idle

TInsertShapes == TInsertOf(FilterItems)

TSearchShapes == TSearchOver({0}, {[num |-> 0, den |-> 1]}, 1..MaxK, FilterFilters)

FilterNext == TInsertShapes \/ TSearchShapes

SpecFilter == FilterInit /\ [][FilterNext]_vars

(***************************************************************************)
(* Container file (uncompressed variant).  The file is a sequence of       *)
(* fields in the order they are written: k is the field's encoding, n its  *)
(* number, s its bytes as a string, m its JSON document.                   *)
(***************************************************************************)
Field(k, n, s, m) == [k |-> k, n |-> n, s |-> s, m |-> m]

I32(n)        == Field("i32", n, "", NilMetadata)
I64(n)        == Field("i64", n, "", NilMetadata)
F32(x)        == Field("f32", x, "", NilMetadata)
Bytes(str)    == Field("bytes", 0, str, NilMetadata)
TimeBytes(w)  == Field("time", w, "", NilMetadata)
JsonBytes(m)  == Field("json", 0, "", m)

\* json.Marshal of a metadata value: Go ints and float64s both become JSON numbers
MarshalValue(v) ==
    [kind |-> IF v.kind \in {"int", "float64"} THEN "number"
              ELSE IF v.kind \in SliceKinds THEN "array"
              ELSE v.kind,
     text |-> v.text]

\* json.Unmarshal into interface{}: every JSON number becomes a float64
UnmarshalValue(j) ==
    [kind |-> IF j.kind = "number" THEN "float64"
              ELSE IF j.kind = "array" THEN "[]interface{}"
              ELSE j.kind,
     text |-> j.text]

MarshalMetadata(metadata) == [key \in DOMAIN metadata |-> MarshalValue(metadata[key])]

UnmarshalMetadata(doc) == [key \in DOMAIN doc |-> UnmarshalValue(doc[key])]

\* Time.MarshalBinary keeps the wall-clock instant and drops the monotonic reading
MarshalTime(timestamp) == timestamp.wall

UnmarshalTime(wall) == [wall |-> wall, mono |-> FALSE]

\* lengths are counted in fields of payload: 0 for no bytes, 1 otherwise
writeNode(n) ==
    <<I32(Len(n.Key))>>
    \o [i \in 1..Len(n.Key) |-> F32(n.Key[i])]
    \o <<I64(IF n.Value = "" THEN 0 ELSE 1)>>
    \o (IF n.Value = "" THEN << >> ELSE <<Bytes(n.Value)>>)
    \o <<I32(1), TimeBytes(MarshalTime(n.Timestamp))>>
    \o (IF DOMAIN n.Metadata = {}
        THEN <<I32(0)>>
        ELSE <<I32(1), JsonBytes(MarshalMetadata(n.Metadata))>>)

\* for i := range t.Nodes { writeNode(f, &t.Nodes[i]) }: the records one after
\* the other (the sequence is split in halves to keep the evaluation shallow)
RECURSIVE writeNodes(_)
writeNodes(nodes) ==
    IF nodes = << >> THEN << >>
    ELSE IF Len(nodes) = 1 THEN writeNode(nodes[1])
    ELSE writeNodes(SubSeq(nodes, 1, Len(nodes) \div 2))
         \o writeNodes(SubSeq(nodes, Len(nodes) \div 2 + 1, Len(nodes)))

\* FileStorage.Save: the file it leaves
Save(t) ==
    [exists |-> TRUE,
     data   |-> <<I32(t.Dimensions), I64(Len(t.Nodes))>> \o writeNodes(t.Nodes)]

EOFError == "EOF"

\* is there a field at pos
HasField(data, pos) == pos <= Len(data)

ReadError(pos) == [err |-> EOFError, node |-> << >>, next |-> pos]

\* the fields of a record whose key starts after data[pos], value length is at
\* data[valueAt] and timestamp length at data[timeAt]
KeyAt(data, pos, dimensions) == [i \in 1..dimensions |-> data[pos + i].n]

ValueAt(data, valueAt) == IF data[valueAt].n = 0 THEN "" ELSE data[valueAt + 1].s

TimestampAt(data, timeAt) ==
    IF data[timeAt].n = 0 THEN ZeroTime ELSE UnmarshalTime(data[timeAt + 1].n)

\* readNode from the metadata length on; a file that ends here has no metadata
readMetadata(data, pos, dimensions, valueAt, timeAt, metaAt) ==
    IF ~HasField(data, metaAt) \/ data[metaAt].n = 0
    THEN [err  |-> NoError,
          node |-> Node(KeyAt(data, pos, dimensions), ValueAt(data, valueAt),
                        NilMetadata, TimestampAt(data, timeAt)),
          next |-> metaAt + 1]
    ELSE IF ~HasField(data, metaAt + 1) THEN ReadError(pos)
    ELSE [err  |-> NoError,
          node |-> Node(KeyAt(data, pos, dimensions), ValueAt(data, valueAt),
                        UnmarshalMetadata(data[metaAt + 1].m), TimestampAt(data, timeAt)),
          next |-> metaAt + 2]

\* readNode from the timestamp length on
readTimestamp(data, pos, dimensions, valueAt, timeAt) ==
    IF ~HasField(data, timeAt) THEN ReadError(pos)
    ELSE IF ~HasField(data, timeAt + data[timeAt].n) THEN ReadError(pos)
    ELSE readMetadata(data, pos, dimensions, valueAt, timeAt,
                      timeAt + data[timeAt].n + 1)

\* readNode from the value length on
readValue(data, pos, dimensions, valueAt) ==
    IF ~HasField(data, valueAt) THEN ReadError(pos)
    ELSE IF ~HasField(data, valueAt + data[valueAt].n) THEN ReadError(pos)
    ELSE readTimestamp(data, pos, dimensions, valueAt, valueAt + data[valueAt].n + 1)

\* readNode: [err, node, next] for the record that starts at data[pos]
readNode(data, pos, dimensions) ==
    IF ~HasField(data, pos) THEN ReadError(pos)
    ELSE IF data[pos].n # dimensions
    THEN [err |-> DimensionMismatch, node |-> << >>, next |-> pos]
    ELSE readValue(data, pos, dimensions, pos + dimensions + 1)

\* for i := range t.Nodes { readNode(f, &t.Nodes[i], dimensions) }
RECURSIVE readNodes(_, _, _, _, _)
readNext(data, dimensions, remaining, nodes, r) ==
    IF r.err # NoError THEN [err |-> r.err, nodes |-> << >>]
    ELSE readNodes(data, r.next, dimensions, remaining - 1, Append(nodes, r.node))

readNodes(data, pos, dimensions, remaining, nodes) ==
    IF remaining = 0 THEN [err |-> NoError, nodes |-> nodes]
    ELSE readNext(data, dimensions, remaining, nodes, readNode(data, pos, dimensions))

\* Load once the nodes are read: the tree with its index rebuilt
Loaded(dimensions, r) ==
    IF r.err # NoError
    THEN [err |-> r.err, tree |-> NewTree(DefaultDimensions)]
    ELSE [err |-> NoError,
          tree |-> RebuildIndex([NewTree(dimensions) EXCEPT !.Nodes = r.nodes])]

\* FileStorage.Load: [err, tree]
Load(f) ==
    IF ~f.exists \/ f.data = << >>
    THEN [err |-> NoError, tree |-> NewTree(DefaultDimensions)]
    ELSE IF Len(f.data) < 2
    THEN [err |-> EOFError, tree |-> NewTree(DefaultDimensions)]
    ELSE Loaded(f.data[1].n, readNodes(f.data, 3, f.data[1].n, f.data[2].n, << >>))

(***************************************************************************)
(* Client.  c is the client with its file: [Dimensions, cachedTree, dirty, *)
(* file].                                                                  *)
(***************************************************************************)
FlushInterval == 100

LoadError == "tree loading error"

\* client.New
NewClient(f, dimensions) ==
    [Dimensions |-> IF dimensions <= 0 THEN DefaultDimensions ELSE dimensions,
     cachedTree |-> << >>,
     dirty      |-> FALSE,
     file       |-> f]

\* getTree were the dimension of the file taken even from a file without nodes
CacheLoaded_AlwaysAdopt(c, l) ==
    IF l.err # NoError THEN [err |-> l.err, c |-> c]
    ELSE [err |-> NoError,
          c   |-> [c EXCEPT !.Dimensions = l.tree.Dimensions, !.cachedTree = <<l.tree>>]]

\* getTree once the file is loaded: an empty tree takes the client's dimension,
\* a tree with nodes gives the client its dimension
CacheLoaded(c, l) ==
    IF l.err # NoError THEN [err |-> l.err, c |-> c]
    ELSE IF Len(l.tree.Nodes) = 0
    THEN [err |-> NoError,
          c   |-> [c EXCEPT !.cachedTree =
                     <<[l.tree EXCEPT !.Dimensions = c.Dimensions,
                                      !.Index = [dim \in 1..c.Dimensions |-> << >>]]>>]]
    ELSE [err |-> NoError,
          c   |-> [c EXCEPT !.Dimensions = l.tree.Dimensions, !.cachedTree = <<l.tree>>]]

\* Client.getTree: [err, c]; the tree is c.cachedTree[1]
getTree(c) ==
    IF c.cachedTree # << >> THEN [err |-> NoError, c |-> c]
    ELSE CacheLoaded(c, Load(c.file))

\* Client.Flush: [err, c]
Flush(c) ==
    IF c.dirty /\ c.cachedTree # << >>
    THEN [err |-> NoError,
          c   |-> [c EXCEPT !.file = Save(c.cachedTree[1]), !.dirty = FALSE]]
    ELSE [err |-> NoError, c |-> c]

\* if tree.Dimensions == 0 { tree.Dimensions = client.Dimensions; ... }
EnsureDimensions(c) ==
    IF c.cachedTree[1].Dimensions = 0
    THEN [c EXCEPT !.cachedTree =
            <<[c.cachedTree[1] EXCEPT !.Dimensions = c.Dimensions,
                                      !.Index = [dim \in 1..c.Dimensions |-> << >>]]>>]
    ELSE c

\* InsertWithMetadata were it to flush after every insert
Inserted_AlwaysFlush(c, r) ==
    IF r.err # NoError THEN [err |-> r.err, c |-> c]
    ELSE Flush([c EXCEPT !.cachedTree = <<r.tree>>, !.dirty = TRUE])

\* InsertWithMetadata after tree.InsertWithMetadata returned r
Inserted(c, r) ==
    IF r.err # NoError THEN [err |-> r.err, c |-> c]
    ELSE IF Len(r.tree.Nodes) % FlushInterval = 0
    THEN Flush([c EXCEPT !.cachedTree = <<r.tree>>, !.dirty = TRUE])
    ELSE [err |-> NoError, c |-> [c EXCEPT !.cachedTree = <<r.tree>>, !.dirty = TRUE]]

\* InsertWithMetadata on the tree of c
InsertCached(c, embedding, text, metadata) ==
    Inserted(c, InsertWithMetadata(c.cachedTree[1], embedding, text, metadata,
                                   TimeNow(Clock(c.cachedTree[1].Nodes))))

\* InsertWithMetadata after getTree returned g
InsertLoaded(g, embedding, text, metadata) ==
    IF g.err # NoError THEN [err |-> LoadError, c |-> g.c]
    ELSE InsertCached(EnsureDimensions(g.c), embedding, text, metadata)

\* Client.InsertWithMetadata: [err, c]
ClientInsertWithMetadata(c, embedding, text, metadata) ==
    IF Len(embedding) # c.Dimensions THEN [err |-> DimensionMismatch, c |-> c]
    ELSE InsertLoaded(getTree(c), embedding, text, metadata)

\* SearchWithFilter after getTree returned g
SearchLoaded(g, embedding, epsilon, threshold, topK, filter, numCPU, mergeOrder) ==
    IF g.err # NoError
    THEN {[err |-> LoadError, c |-> g.c, hits |-> EmptyMap, results |-> << >>]}
    ELSE {[err |-> o.err, c |-> [g.c EXCEPT !.cachedTree = <<o.tree>>],
           hits |-> o.hits, results |-> o.results] :
             o \in SearchWithFilter(g.c.cachedTree[1], embedding, epsilon,
                                    threshold, topK, filter, numCPU, mergeOrder)}

\* Client.SearchWithFilter (Client.Search is the call with the nil filter):
\* the set of [err, c, hits, results]
ClientSearchWithFilter(c, embedding, epsilon, threshold, topK, filter, numCPU, mergeOrder) ==
    IF Len(embedding) # c.Dimensions
    THEN {[err |-> DimensionMismatch, c |-> c, hits |-> EmptyMap, results |-> << >>]}
    ELSE SearchLoaded(getTree(c), embedding, epsilon, threshold, topK, filter,
                      numCPU, mergeOrder)

\* BatchInsert after tree.BatchInsert returned r
BatchInserted(c, r) ==
    IF r.err # NoError THEN [err |-> r.err, c |-> c]
    ELSE Flush([c EXCEPT !.cachedTree = <<r.tree>>, !.dirty = TRUE])

\* BatchInsert on the tree of c
BatchInsertCached(c, items) ==
    IF \E i \in DOMAIN items : Len(items[i].Key) # c.Dimensions
    THEN [err |-> DimensionMismatch, c |-> c]
    ELSE BatchInserted(c, TreeBatchInsert(c.cachedTree[1], items))

\* BatchInsert after getTree returned g
BatchInsertLoaded(g, items) ==
    IF g.err # NoError THEN [err |-> LoadError, c |-> g.c]
    ELSE BatchInsertCached(EnsureDimensions(g.c), items)

\* Client.BatchInsert: [err, c]
ClientBatchInsert(c, items) == BatchInsertLoaded(getTree(c), items)

\* GetNodeCount after getTree returned g
NodeCountLoaded(g) ==
    IF g.err # NoError THEN [err |-> g.err, c |-> g.c, count |-> 0]
    ELSE [err |-> NoError, c |-> g.c, count |-> Len(g.c.cachedTree[1].Nodes)]

\* Client.GetNodeCount: [err, c, count]
GetNodeCount(c) == NodeCountLoaded(getTree(c))

(***************************************************************************)
(* Spec: one client at a time on one path.  New opens the path again, as a *)
(* restarted process does; what the previous client had not flushed is     *)
(* lost with it.                                                           *)
(***************************************************************************)
DeclaredDimensions == {0, 1, 4}

ZeroThreshold == [num |-> 0, den |-> 1]

Client == [Dimensions |-> Dimensions, cachedTree |-> cachedTree, dirty |-> dirty,
           file |-> file]

SetClient(c) ==
    /\ Dimensions' = c.Dimensions
    /\ cachedTree' = c.cachedTree
    /\ dirty' = c.dirty
    /\ file' = c.file

\* the call record of a client call: it keeps the dimension the client was opened with
ClientCall(call) == [call EXCEPT !.declared = last.declared]

Init ==
    /\ \E d \in DeclaredDimensions :
          /\ Dimensions = NewClient(NoFile, d).Dimensions
          /\ last = [NoCall EXCEPT !.op = "new", !.declared = d]
    /\ cachedTree = << >>
    /\ dirty = FALSE
    /\ file = NoFile
    /\ NumCPU = HostCPU
    /\ Idle

New ==
    \E d \in DeclaredDimensions :
        /\ SetClient(NewClient(file, d))
        /\ last' = [NoCall EXCEPT !.op = "new", !.declared = d]
        /\ UNCHANGED <<NumCPU, saving, storage, callers>>

CInsert ==
    \E item \in InputItems(Dimensions) :
        \E r \in {ClientInsertWithMetadata(Client, item.Key, item.Value, item.Metadata)} :
            /\ r.c.cachedTree # << >> => Len(r.c.cachedTree[1].Nodes) <= MaxNodes
            /\ SetClient(r.c)
            /\ last' = ClientCall(InsertCall(r.err, item))
            /\ UNCHANGED <<NumCPU, saving, storage, callers>>

CBatchInsert ==
    \E items \in InputBatches(Dimensions) :
        /\ GetNodeCount(Client).count + Len(items) <= MaxNodes
        /\ \E r \in {ClientBatchInsert(Client, items)} :
               /\ SetClient(r.c)
               /\ last' = ClientCall(BatchCall(r.err, items))
        /\ UNCHANGED <<NumCPU, saving, storage, callers>>

CSearch ==
    \E query \in InputQueries(Dimensions), epsilon \in Epsilons(Dimensions),
       filter \in Filters(Dimensions) :
        \E mergeOrder \in Perms(0..(Min(NumCPU, Dimensions) - 1)) :
            \E o \in ClientSearchWithFilter(Client, query, epsilon, ZeroThreshold, MaxK,
                                            filter, NumCPU, mergeOrder) :
                /\ SetClient(o.c)
                /\ last' = ClientCall(SearchCall("search", o, query, epsilon,
                                                 ZeroThreshold, MaxK, filter,
                                                 Min(NumCPU, Dimensions)))
                /\ UNCHANGED <<NumCPU, saving, storage, callers>>

CFlush ==
    \E r \in {Flush(Client)} :
        /\ SetClient(r.c)
        /\ last' = ClientCall([NoCall EXCEPT !.op = "flush", !.err = r.err])
        /\ UNCHANGED <<NumCPU, saving, storage, callers>>

CGetNodeCount ==
    \E r \in {GetNodeCount(Client)} :
        /\ SetClient(r.c)
        /\ last' = ClientCall([NoCall EXCEPT !.op = "count", !.err = r.err,
                                             !.count = r.count])
        /\ UNCHANGED <<NumCPU, saving, storage, callers>>

Next == New \/ CInsert \/ CBatchInsert \/ CSearch \/ CFlush \/ CGetNodeCount

Spec == Init /\ [][Next]_vars

(***************************************************************************)
(* SpecFlush: Client.Flush write by write.  FileStorage.Save creates the   *)
(* file at the path itself and then issues one write per field, so another *)
(* process can open the path between two writes, and a write can fail.     *)
(* The writer is one client of dimension 1; the reader is another process  *)
(* that calls FileStorage.Load on the same path.                           *)
(***************************************************************************)
WriteError == "write error"

\* os.Create(fs.path): the file exists and is empty
Create(f) == [exists |-> TRUE, data |-> << >>]

\* one binary.Write / w.Write on the open file
Write(f, field) == [f EXCEPT !.data = Append(@, field)]

\* Save after os.Create: the writes it is going to issue
SaveBegin(c) ==
    [active |-> TRUE, pending |-> Save(c.cachedTree[1]).data, previous |-> c.file,
     target |-> Save(c.cachedTree[1])]

\* Save after one more write
SaveStep(s) == [s EXCEPT !.pending = Tail(@), !.active = (Tail(s.pending) # << >>)]

\* Save returned: nothing is open any more
SaveEnd(s) == [s EXCEPT !.active = FALSE, !.pending = << >>]

\* Flush were it to clear the dirty flag whatever Save returned
FlushFailed_ClearsDirty(c, err) == [err |-> err, c |-> [c EXCEPT !.dirty = FALSE]]

\* Flush when Save returned err: if err != nil { return err }
FlushFailed(c, err) == [err |-> err, c |-> c]

\* Flush when Save returned nil: client.dirty = false
FlushSucceeded(c) == [err |-> NoError, c |-> [c EXCEPT !.dirty = FALSE]]

FlushCall(err) == [NoCall EXCEPT !.op = "flush", !.err = err, !.declared = 1]

\* what a process that loads the path gets
LoadCall(l) ==
    [NoCall EXCEPT !.op = "load", !.err = l.err, !.results = l.tree.Nodes,
                   !.count = Len(l.tree.Nodes), !.declared = l.tree.Dimensions]

FlushItems == {Item(<<1>>, "q", MetaIndex), Item(<<0>>, "p", NilMetadata)}

FlushInit ==
    /\ Dimensions = NewClient(NoFile, 1).Dimensions
    /\ cachedTree = << >>
    /\ dirty = FALSE
    /\ file = NoFile
    /\ NumCPU = HostCPU
    /\ last = NewCall(1)
    /\ Idle

\* the writer inserts (it is not inside Flush)
FInsert ==
    /\ ~saving.active
    /\ \E item \in FlushItems :
        \E r \in {ClientInsertWithMetadata(Client, item.Key, item.Value, item.Metadata)} :
            /\ Len(r.c.cachedTree[1].Nodes) <= MaxNodes
            /\ SetClient(r.c)
            /\ last' = ClientCall(InsertCall(r.err, item))
    /\ UNCHANGED <<NumCPU, saving, storage, callers>>

\* Flush enters Save, and os.Create succeeds
FCreate ==
    /\ ~saving.active
    /\ dirty /\ cachedTree # << >>
    /\ file' = Create(file)
    /\ saving' = SaveBegin(Client)
    /\ last' = [NoCall EXCEPT !.op = "create", !.declared = 1]
    /\ UNCHANGED <<Dimensions, cachedTree, dirty, NumCPU, storage, callers>>

\* Flush enters Save, and os.Create fails: Save and Flush return the error
FCreateFails ==
    /\ ~saving.active
    /\ dirty /\ cachedTree # << >>
    /\ \E r \in {FlushFailed(Client, WriteError)} :
        /\ SetClient(r.c)
        /\ last' = FlushCall(r.err)
    /\ saving' = [NotSaving EXCEPT !.previous = file, !.target = Save(Tree)]
    /\ UNCHANGED <<NumCPU, storage, callers>>

\* a write of Save that is not its last one
FWrite ==
    /\ saving.active
    /\ Len(saving.pending) > 1
    /\ file' = Write(file, Head(saving.pending))
    /\ saving' = SaveStep(saving)
    /\ last' = [NoCall EXCEPT !.op = "write", !.declared = 1]
    /\ UNCHANGED <<Dimensions, cachedTree, dirty, NumCPU, storage, callers>>

\* the last write of Save: Save returns nil and Flush clears the dirty flag
FWriteLast ==
    /\ saving.active
    /\ Len(saving.pending) = 1
    /\ \E r \in {FlushSucceeded([Client EXCEPT !.file = Write(file, Head(saving.pending))])} :
        /\ SetClient(r.c)
        /\ last' = FlushCall(r.err)
    /\ saving' = SaveEnd(saving)
    /\ UNCHANGED <<NumCPU, storage, callers>>

\* a write of Save fails: Save and Flush return the error
FWriteFails ==
    /\ saving.active
    /\ \E r \in {FlushFailed(Client, WriteError)} :
        /\ SetClient(r.c)
        /\ last' = FlushCall(r.err)
    /\ saving' = SaveEnd(saving)
    /\ UNCHANGED <<NumCPU, storage, callers>>

\* Flush with nothing to write
FFlushClean ==
    /\ ~saving.active
    /\ ~(dirty /\ cachedTree # << >>)
    /\ \E r \in {Flush(Client)} :
        /\ SetClient(r.c)
        /\ last' = FlushCall(r.err)
    /\ UNCHANGED <<NumCPU, saving, storage, callers>>

\* another process loads the path
FReaderLoad ==
    /\ last' = LoadCall(Load(file))
    /\ UNCHANGED <<Dimensions, cachedTree, dirty, file, NumCPU, saving, storage, callers>>

FlushNext ==
    \/ FInsert \/ FCreate \/ FCreateFails \/ FWrite \/ FWriteLast \/ FWriteFails
    \/ FFlushClean \/ FReaderLoad

SpecFlush == FlushInit /\ [][FlushNext]_vars

(***************************************************************************)
(* SpecPolicy: the periodic flush of Client.InsertWithMetadata.  The       *)
(* client has batch-inserted PolicyStart nodes of distinct keys, so that   *)
(* its inserts take the node count across a multiple of FlushInterval.     *)
(***************************************************************************)
PolicyStart == 98

PolicyNodes == 102

\* the nodes the client has inserted in one batch: keys 2, 3, ...
StoredNodes(count) ==
    [i \in 1..count |-> Node(<<i + 1>>, "s", NilMetadata, TimeNow(i))]

PolicyItems == FlushItems \cup {Item(<<2, 4, 6>>, "A", NilMetadata)}

\* the client after BatchInsert of count items into a new collection: the
\* nodes appended, the index rebuilt, the file written
AfterBatchInsert(count) ==
    Flush([NewClient(NoFile, 1) EXCEPT
              !.cachedTree = <<RebuildIndex([NewTree(1) EXCEPT
                                               !.Nodes = StoredNodes(count)])>>,
              !.dirty = TRUE]).c

PolicyInit ==
    /\ \E c \in {AfterBatchInsert(PolicyStart)} :
          /\ Dimensions = c.Dimensions
          /\ cachedTree = c.cachedTree
          /\ dirty = c.dirty
          /\ file = c.file
    /\ NumCPU = HostCPU
    /\ last = NewCall(1)
    /\ Idle

PInsert ==
    \E item \in PolicyItems :
        \E r \in {ClientInsertWithMetadata(Client, item.Key, item.Value, item.Metadata)} :
            /\ r.c.cachedTree # << >> => Len(r.c.cachedTree[1].Nodes) <= PolicyNodes
            /\ SetClient(r.c)
            /\ last' = ClientCall(InsertCall(r.err, item))
            /\ UNCHANGED <<NumCPU, saving, storage, callers>>

PFlush ==
    \E r \in {Flush(Client)} :
        /\ SetClient(r.c)
        /\ last' = ClientCall([NoCall EXCEPT !.op = "flush", !.err = r.err])
        /\ UNCHANGED <<NumCPU, saving, storage, callers>>

PGetNodeCount ==
    \E r \in {GetNodeCount(Client)} :
        /\ SetClient(r.c)
        /\ last' = ClientCall([NoCall EXCEPT !.op = "count", !.err = r.err,
                                             !.count = r.count])
        /\ UNCHANGED <<NumCPU, saving, storage, callers>>

PolicyNext == PInsert \/ PFlush \/ PGetNodeCount

SpecPolicy == PolicyInit /\ [][PolicyNext]_vars

(***************************************************************************)
(* The container file byte by byte.  A file is the sequence of its bytes   *)
(* (numbers 0..255); offsets are 0-based as in the code.  Used where the   *)
(* position of a read inside the file matters: the probe of the            *)
(* compression flag, files cut short, files of earlier writers and the     *)
(* offset table of the memory-mapped loader.  Key components are whole     *)
(* numbers, one unit being 1.0.                                            *)
(***************************************************************************)
\* binary.Write of an int32 / uint32, little-endian
Int32Bytes(n) == [i \in 1..4 |-> (n \div (256 ^ (i - 1))) % 256]

\* binary.Write of an int64 / uint64 whose value fits 32 bits
Int64Bytes(n) == Int32Bytes(n) \o [i \in 1..4 |-> IF n < 0 THEN 255 ELSE 0]

\* the exponent of the float32 a >= 1: the e with 2^e <= a < 2^(e+1)
Exponent(a) == CHOOSE e \in 0..23 : 2 ^ e <= a /\ a < 2 ^ (e + 1)

\* the 23 fraction bits of the float32 a >= 1
Fraction(a) == (a - 2 ^ Exponent(a)) * 2 ^ (23 - Exponent(a))

\* binary.Write of a float32 that is a whole number: sign, biased exponent and
\* fraction, little-endian
Float32Bytes(x) ==
    IF x = 0 THEN <<0, 0, 0, 0>>
    ELSE <<Fraction(IF x < 0 THEN -x ELSE x) % 256,
           (Fraction(IF x < 0 THEN -x ELSE x) \div 256) % 256,
           ((Exponent(IF x < 0 THEN -x ELSE x) + 127) % 2) * 128
               + Fraction(IF x < 0 THEN -x ELSE x) \div 65536,
           (IF x < 0 THEN 128 ELSE 0)
               + (Exponent(IF x < 0 THEN -x ELSE x) + 127) \div 2>>

\* []byte(n.Value) for the values of the model
Utf8(str) ==
    CASE str = "" -> << >>
      [] str = "p" -> <<112>>
      [] str = "q" -> <<113>>
      [] str = "s" -> <<115>>

\* Time.MarshalBinary: version 1, the seconds big-endian, the nanoseconds,
\* the zone offset -1 of UTC; the monotonic reading is not written
TimeBinary(timestamp) ==
    <<1, 0, 0, 0, 0>> \o [i \in 1..4 |-> (timestamp.wall \div (256 ^ (4 - i))) % 256]
    \o <<0, 0, 0, 0>> \o <<255, 255>>

\* json.Marshal of the metadata of the model: the text {"index":1}
JsonText(metadata) ==
    CASE metadata = MetaIndex -> <<123, 34, 105, 110, 100, 101, 120, 34, 58, 49, 125>>

\* json.Marshal(n.Metadata) if n.Metadata != nil
MetadataBytes(metadata) ==
    IF metadata = NilMetadata THEN << >> ELSE JsonText(metadata)

RECURSIVE KeyBytes(_)
KeyBytes(key) ==
    IF key = << >> THEN << >> ELSE Float32Bytes(Head(key)) \o KeyBytes(Tail(key))

\* the tail of a record, the same in both variants: value, timestamp, metadata
TailBytes(n) ==
    Int64Bytes(Len(Utf8(n.Value))) \o Utf8(n.Value)
    \o Int32Bytes(Len(TimeBinary(n.Timestamp))) \o TimeBinary(n.Timestamp)
    \o Int32Bytes(Len(MetadataBytes(n.Metadata))) \o MetadataBytes(n.Metadata)

\* writeNode, byte by byte
writeNodeBytes(n) == Int32Bytes(Len(n.Key)) \o KeyBytes(n.Key) \o TailBytes(n)

RECURSIVE writeAllBytes(_)
writeAllBytes(nodes) ==
    IF nodes = << >> THEN << >>
    ELSE writeNodeBytes(Head(nodes)) \o writeAllBytes(Tail(nodes))

HeaderBytes(t) == Int32Bytes(t.Dimensions) \o Int64Bytes(Len(t.Nodes))

\* FileStorage.Save, byte by byte
SaveBytes(t) ==
    [exists |-> TRUE, data |-> HeaderBytes(t) \o writeAllBytes(t.Nodes)]

MinOf(vec) == CHOOSE v \in Range(vec) : \A w \in Range(vec) : v <= w

MaxOf(vec) == CHOOSE v \in Range(vec) : \A w \in Range(vec) : w <= v

\* uint8(math.Round((v - min) * scale)) with scale = 255 / (max - min), and
\* scale = 0 where max == min
\* the byte were the fraction cut off instead of rounded
Quantized_Truncated(v, min, max) ==
    IF max = min THEN 0
    ELSE (255 * (v - min)) \div (max - min)

Quantized(v, min, max) ==
    IF max = min THEN 0
    ELSE (2 * 255 * (v - min) + (max - min)) \div (2 * (max - min))

\* QuantizeVector: [Dims, Min, Max, Values]
QuantizeVector(vec) ==
    IF vec = << >> THEN [Dims |-> 0, Min |-> 0, Max |-> 0, Values |-> << >>]
    ELSE [Dims   |-> Len(vec),
          Min    |-> MinOf(vec),
          Max    |-> MaxOf(vec),
          Values |-> [i \in 1..Len(vec) |-> Quantized(vec[i], MinOf(vec), MaxOf(vec))]]

\* the quantized key block
QuantizedBytes(qv) ==
    Int32Bytes(qv.Dims) \o Float32Bytes(qv.Min) \o Float32Bytes(qv.Max) \o qv.Values

\* writeCompressedNode, byte by byte
writeCompressedNodeBytes(n) == QuantizedBytes(QuantizeVector(n.Key)) \o TailBytes(n)

RECURSIVE writeAllCompressedBytes(_)
writeAllCompressedBytes(nodes) ==
    IF nodes = << >> THEN << >>
    ELSE writeCompressedNodeBytes(Head(nodes)) \o writeAllCompressedBytes(Tail(nodes))

\* CompressedStorage.Save, byte by byte: the header, the flag 1, the records
CompressedSaveBytes(t) ==
    [exists |-> TRUE,
     data   |-> HeaderBytes(t) \o <<1>> \o writeAllCompressedBytes(t.Nodes)]

JsonError == "invalid json"

\* are there n bytes at offset off
Available(data, off, n) == off >= 0 /\ n >= 0 /\ off + n <= Len(data)

SliceAt(data, off, n) == SubSeq(data, off + 1, off + n)

\* binary.Read of an int32
Int32At(data, off) ==
    data[off + 1] + 256 * data[off + 2] + 65536 * data[off + 3]
    + 16777216 * (IF data[off + 4] >= 128 THEN data[off + 4] - 256 ELSE data[off + 4])

\* binary.Read of an int64: is it negative, is it beyond any slice length, does
\* it fit 32 bits
Int64Negative(data, off) == data[off + 8] >= 128

Int64OutOfRange(data, off) == data[off + 7] # 0 \/ data[off + 8] # 0

Int64Fits(data, off) ==
    \A i \in 5..8 : data[off + i] = (IF data[off + 4] >= 128 THEN 255 ELSE 0)

\* a float32 that is no whole number: its bytes
NotWhole(data, off) == [bits |-> SliceAt(data, off, 4)]

BiasedExponent(data, off) == (data[off + 4] % 128) * 2 + data[off + 3] \div 128

Significand(data, off) ==
    8388608 + (data[off + 3] % 128) * 65536 + data[off + 2] * 256 + data[off + 1]

\* binary.Read of a float32
Float32At(data, off) ==
    IF BiasedExponent(data, off) = 0 /\ Significand(data, off) = 8388608 THEN 0
    ELSE IF BiasedExponent(data, off) \in 127..150
            /\ Significand(data, off) % (2 ^ (150 - BiasedExponent(data, off))) = 0
    THEN (IF data[off + 4] >= 128 THEN -1 ELSE 1)
         * (Significand(data, off) \div (2 ^ (150 - BiasedExponent(data, off))))
    ELSE NotWhole(data, off)

\* string(valueBytes); "?" stands for every string outside the model
StringOf(bytes) ==
    IF \E str \in {"", "p", "q", "s"} : Utf8(str) = bytes
    THEN CHOOSE str \in {"", "p", "q", "s"} : Utf8(str) = bytes
    ELSE "?"

\* Time.UnmarshalBinary succeeds on 15 bytes of version 1
TimeValid(bytes) == Len(bytes) = 15 /\ bytes[1] = 1

\* the timestamp read: the instant, or the zero time where UnmarshalBinary fails
TimeOf(bytes) ==
    IF ~TimeValid(bytes) THEN ZeroTime
    ELSE UnmarshalTime(bytes[6] * 16777216 + bytes[7] * 65536 + bytes[8] * 256 + bytes[9])

\* json.Unmarshal succeeds on the JSON texts of the model
JsonValid(bytes) == bytes = JsonText(MetaIndex)

JsonOf(bytes) == UnmarshalMetadata(MarshalMetadata(MetaIndex))

ByteError(err, off) == [err |-> err, node |-> << >>, next |-> off]

\* a record read from the metadata length on; without four bytes for the
\* length the record has no metadata and the stream is at its end
readMetadataBytes(data, off, key, value, timestamp) ==
    IF ~Available(data, off, 4)
    THEN [err |-> NoError, node |-> Node(key, value, NilMetadata, timestamp),
          next |-> Len(data)]
    ELSE IF Int32At(data, off) <= 0
    THEN [err |-> NoError, node |-> Node(key, value, NilMetadata, timestamp),
          next |-> off + 4]
    ELSE IF ~Available(data, off + 4, Int32At(data, off)) THEN ByteError(EOFError, off)
    ELSE IF ~JsonValid(SliceAt(data, off + 4, Int32At(data, off)))
    THEN ByteError(JsonError, off)
    ELSE [err  |-> NoError,
          node |-> Node(key, value, JsonOf(SliceAt(data, off + 4, Int32At(data, off))),
                        timestamp),
          next |-> off + 4 + Int32At(data, off)]

\* a record read from the timestamp length on.  readNode makes the buffer
\* whatever the length (a negative one panics); readCompressedNode reads the
\* timestamp only if the length is positive
readTimestampBytes(data, off, key, value, compressed) ==
    IF ~Available(data, off, 4) THEN ByteError(EOFError, off)
    ELSE IF Int32At(data, off) < 0 /\ ~compressed THEN ByteError(PanicError, off)
    ELSE IF Int32At(data, off) <= 0
    THEN readMetadataBytes(data, off + 4, key, value,
                           IF compressed THEN ZeroTime ELSE TimeOf(<< >>))
    ELSE IF ~Available(data, off + 4, Int32At(data, off)) THEN ByteError(EOFError, off)
    ELSE readMetadataBytes(data, off + 4 + Int32At(data, off), key, value,
                           TimeOf(SliceAt(data, off + 4, Int32At(data, off))))

\* a record read from the value length on; make([]byte, valueLen) panics on a
\* negative length and on one beyond the address space
readValueBytes(data, off, key, compressed) ==
    IF ~Available(data, off, 8) THEN ByteError(EOFError, off)
    ELSE IF Int64Negative(data, off) \/ Int64OutOfRange(data, off)
    THEN ByteError(PanicError, off)
    ELSE IF ~Int64Fits(data, off) THEN ByteError(EOFError, off)
    ELSE IF ~Available(data, off + 8, Int32At(data, off)) THEN ByteError(EOFError, off)
    ELSE readTimestampBytes(data, off + 8 + Int32At(data, off), key,
                            StringOf(SliceAt(data, off + 8, Int32At(data, off))),
                            compressed)

\* readNode at offset off
readNodeBytes(data, off, dimensions) ==
    IF ~Available(data, off, 4) THEN ByteError(EOFError, off)
    ELSE IF Int32At(data, off) # dimensions THEN ByteError(DimensionMismatch, off)
    ELSE IF ~Available(data, off + 4, 4 * dimensions) THEN ByteError(EOFError, off)
    ELSE readValueBytes(data, off + 4 + 4 * dimensions,
                        [i \in 1..dimensions |-> Float32At(data, off + 4 * i)], FALSE)

\* QuantizedVector.Dequantize: min + v * (max - min) / 255
Dequantize(min, max, values) ==
    [i \in 1..Len(values) |->
        IF min \notin Int \/ max \notin Int THEN [bits |-> <<min, max, values[i]>>]
        ELSE IF (values[i] * (max - min)) % 255 = 0
        THEN min + (values[i] * (max - min)) \div 255
        ELSE [bits |-> <<min, max, values[i]>>]]

\* readCompressedNode at offset off
readCompressedNodeBytes(data, off, expectedDims) ==
    IF ~Available(data, off, 4) THEN ByteError(EOFError, off)
    ELSE IF Int32At(data, off) # expectedDims THEN ByteError(DimensionMismatch, off)
    ELSE IF ~Available(data, off + 4, 8 + expectedDims) THEN ByteError(EOFError, off)
    ELSE readValueBytes(data, off + 12 + expectedDims,
                        Dequantize(Float32At(data, off + 4), Float32At(data, off + 8),
                                   SliceAt(data, off + 12, expectedDims)), TRUE)

\* for i := range t.Nodes { readNode / readCompressedNode }
RECURSIVE readAllBytes(_, _, _, _, _, _)
readNextBytes(data, dimensions, remaining, nodes, compressed, r) ==
    IF r.err # NoError THEN [err |-> r.err, nodes |-> << >>]
    ELSE readAllBytes(data, r.next, dimensions, remaining - 1, Append(nodes, r.node),
                      compressed)

readAllBytes(data, off, dimensions, remaining, nodes, compressed) ==
    IF remaining = 0 THEN [err |-> NoError, nodes |-> nodes]
    ELSE readNextBytes(data, dimensions, remaining, nodes, compressed,
                       IF compressed THEN readCompressedNodeBytes(data, off, dimensions)
                       ELSE readNodeBytes(data, off, dimensions))

\* Load from the node count on; make([]types.Node, nodeCount) panics on a
\* count that is negative or beyond the address space
LoadNodesBytes(data, off, compressed) ==
    IF Int64Negative(data, 4) \/ ~Int64Fits(data, 4)
    THEN [err |-> PanicError, tree |-> NewTree(DefaultDimensions)]
    ELSE Loaded(Int32At(data, 0),
                readAllBytes(data, off, Int32At(data, 0), Int32At(data, 4), << >>,
                             compressed))

\* FileStorage.Load, byte by byte: [err, tree]
LoadBytes(f) ==
    IF ~f.exists \/ f.data = << >>
    THEN [err |-> NoError, tree |-> NewTree(DefaultDimensions)]
    ELSE IF ~Available(f.data, 0, 12)
    THEN [err |-> EOFError, tree |-> NewTree(DefaultDimensions)]
    ELSE LoadNodesBytes(f.data, 12, FALSE)

\* CompressedStorage.Load, byte by byte: the byte after the header is read as
\* the flag and stays read; if there is none the flag is 0 and the position is
\* moved one byte back
CompressedLoadBytes(f) ==
    IF ~f.exists \/ f.data = << >>
    THEN [err |-> NoError, tree |-> NewTree(DefaultDimensions)]
    ELSE IF ~Available(f.data, 0, 12)
    THEN [err |-> EOFError, tree |-> NewTree(DefaultDimensions)]
    ELSE IF ~Available(f.data, 12, 1) THEN LoadNodesBytes(f.data, 11, FALSE)
    ELSE LoadNodesBytes(f.data, 13, f.data[13] = 1)

(***************************************************************************)
(* MmapStorage: the memory-mapped loader.  The storage is <<>> (nil) or    *)
(* <<m>> with m the MmapStorage.                                           *)
(***************************************************************************)
HeaderError == "file too small for header"

UnexpectedEOF == "unexpected EOF"

\* an offset beyond the end of the file: every bounds check of the loader
\* treats all of them alike, so the first one stands for them all
Beyond(data) == Len(data) + 1

\* an offset below the start of the file
Below == -1

\* the unsigned number of width 4 or 8 at off does not fit 31 bits
Oversized(data, off, width) ==
    \E i \in 4..width : data[off + i] # 0 /\ (i > 4 \/ data[off + i] >= 128)

\* offset += width + int64(n) * unit, for the unsigned n of that width at offset;
\* a uint64 with its top bit set is a negative int64
Skipped(data, offset, width, unit) ==
    IF Oversized(data, offset, width)
    THEN (IF width = 8 /\ data[offset + 8] >= 128
          THEN (IF Int64Fits(data, offset) /\ offset + 8 + Int32At(data, offset) >= 0
                THEN offset + 8 + Int32At(data, offset)
                ELSE Below)
          ELSE Beyond(data))
    ELSE IF Int32At(data, offset) > Len(data) THEN Beyond(data)
    ELSE IF offset + width + Int32At(data, offset) * unit > Len(data) THEN Beyond(data)
    ELSE offset + width + Int32At(data, offset) * unit

\* one field of buildOffsetTable: the bounds check of the length, then the skip
\* of the length and of what it announces; m.mmap[offset:...] at a negative
\* offset panics
SkipField(data, offset, width, unit) ==
    IF offset < 0 THEN [err |-> PanicError, offset |-> offset]
    ELSE IF offset + width > Len(data) THEN [err |-> UnexpectedEOF, offset |-> offset]
    ELSE [err |-> NoError, offset |-> Skipped(data, offset, width, unit)]

\* the width of the length of the field after the given one: dimension count
\* (1), value (2), timestamp (3), metadata (4)
FieldWidth(field) == IF field = 2 THEN 8 ELSE 4

RECURSIVE buildOffsetTable(_, _, _, _)
RECURSIVE skipFields(_, _, _, _, _)
\* buildOffsetTable after the skip r of the given field of the current node
skipFields(data, remaining, nodeOffsets, r, field) ==
    IF r.err # NoError THEN [err |-> r.err, nodeOffsets |-> << >>]
    ELSE IF field = 4 THEN buildOffsetTable(data, r.offset, remaining - 1, nodeOffsets)
    ELSE skipFields(data, remaining, nodeOffsets,
                    SkipField(data, r.offset, FieldWidth(field + 1), 1), field + 1)

\* MmapStorage.buildOffsetTable from the node at offset on: [err, nodeOffsets]
buildOffsetTable(data, offset, remaining, nodeOffsets) ==
    IF remaining = 0 THEN [err |-> NoError, nodeOffsets |-> nodeOffsets]
    ELSE skipFields(data, remaining, Append(nodeOffsets, offset),
                    SkipField(data, offset, 4, 4), 1)

\* the MmapStorage over the mapped bytes, no index loaded
MmapStorage(data, dimensions, nodeCount, nodeOffsets) ==
    [mmap |-> data, dimensions |-> dimensions, nodeCount |-> nodeCount,
     nodeOffsets |-> nodeOffsets, indices |-> << >>,
     indexMutex |-> [readers |-> 0, writer |-> FALSE]]

\* NewMmapStorage once the offset table is built
Mapped(f, r) ==
    IF r.err # NoError THEN [err |-> r.err, storage |-> << >>, file |-> f]
    ELSE [err     |-> NoError,
          storage |-> <<MmapStorage(f.data, Int32At(f.data, 0), Int32At(f.data, 4),
                                    r.nodeOffsets)>>,
          file    |-> f]

\* NewMmapStorage: [err, storage, file]; os.O_CREATE makes the file if there is
\* none; make([]int64, nodeCount) panics on a count that is negative or beyond
\* the address space
NewMmapStorage(f) ==
    IF ~f.exists \/ f.data = << >>
    THEN [err |-> NoError, storage |-> <<MmapStorage(<< >>, 0, 0, << >>)>>,
          file |-> [exists |-> TRUE, data |-> << >>]]
    ELSE IF Len(f.data) < 12 THEN [err |-> HeaderError, storage |-> << >>, file |-> f]
    ELSE IF Oversized(f.data, 0, 4) \/ Oversized(f.data, 4, 8)
    THEN [err |-> PanicError, storage |-> << >>, file |-> f]
    ELSE Mapped(f, buildOffsetTable(f.data, 12, Int32At(f.data, 4), << >>))

(***************************************************************************)
(* SpecFormat: files and their loaders.  A writer leaves the file of a     *)
(* tree in one of the two variants; the file is cut short, or the          *)
(* dimension count of one of its records is overwritten; each of the three *)
(* loaders opens what is there.                                            *)
(***************************************************************************)
FormatNodes == 2

FormatItems(d) ==
    IF d = 1 THEN <<Item(<<1>>, "q", MetaIndex), Item(<<0>>, "p", NilMetadata)>>
    ELSE <<Item(<<1, 1>>, "q", MetaIndex), Item(<<0, 0>>, "", NilMetadata)>>

\* the tree after the inserts of the items, in their order
RECURSIVE TreeOfItems(_, _)
TreeOfItems(t, items) ==
    IF items = << >> THEN t
    ELSE TreeOfItems(InsertWithMetadata(t, Head(items).Key, Head(items).Value,
                                        Head(items).Metadata,
                                        TimeNow(Clock(t.Nodes))).tree,
                     Tail(items))

FormatTrees ==
    {TreeOfItems(NewTree(d), [i \in 1..n |-> FormatItems(d)[choice[i]]]) :
        d \in {1, 2}, n \in 0..FormatNodes, choice \in [1..FormatNodes -> 1..2]}

\* the offset of the dimension count of record i (from 1) in the file of t
RecordOffset(t, i) == 12 + Len(writeAllBytes(SubSeq(t.Nodes, 1, i - 1)))

\* the file with the four bytes at offset off overwritten by the int32 n
Overwritten(f, off, n) ==
    [f EXCEPT !.data = [j \in 1..Len(f.data) |->
                          IF j \in (off + 1)..(off + 4) THEN Int32Bytes(n)[j - off]
                          ELSE f.data[j]]]

\* what a loader returned
LoaderCall(op, l) == [LoadCall(l) EXCEPT !.op = op]

FormatInit ==
    /\ Dimensions = 0
    /\ cachedTree = << >>
    /\ dirty = FALSE
    /\ file = NoFile
    /\ NumCPU = HostCPU
    /\ last = NoCall
    /\ Idle

\* the writer's tree is set up and FileStorage.Save writes it
WSave ==
    /\ \E t \in FormatTrees :
          /\ cachedTree' = <<t>>
          /\ Dimensions' = t.Dimensions
          /\ file' = SaveBytes(t)
    /\ last' = [NoCall EXCEPT !.op = "save"]
    /\ storage' = NoStorage
    /\ UNCHANGED <<dirty, NumCPU, saving, callers>>

\* the writer's tree is set up and CompressedStorage.Save writes it
WSaveCompressed ==
    /\ \E t \in FormatTrees :
          /\ cachedTree' = <<t>>
          /\ Dimensions' = t.Dimensions
          /\ file' = CompressedSaveBytes(t)
    /\ last' = [NoCall EXCEPT !.op = "save_compressed"]
    /\ storage' = NoStorage
    /\ UNCHANGED <<dirty, NumCPU, saving, callers>>

\* the file loses its end
XTruncate ==
    /\ \E n \in 1..(Len(file.data) - 1) :
          file' = [file EXCEPT !.data = SubSeq(file.data, 1, n)]
    /\ last' = [NoCall EXCEPT !.op = "truncate"]
    /\ storage' = NoStorage
    /\ UNCHANGED <<Dimensions, cachedTree, dirty, NumCPU, saving, callers>>

\* the dimension count of a record of an uncompressed file is overwritten
XCorrupt ==
    /\ cachedTree # << >>
    /\ file = SaveBytes(Tree)
    /\ \E i \in 1..Len(Tree.Nodes), d \in 0..2 :
          /\ d # Tree.Dimensions
          /\ file' = Overwritten(file, RecordOffset(Tree, i), d)
    /\ last' = [NoCall EXCEPT !.op = "corrupt"]
    /\ storage' = NoStorage
    /\ UNCHANGED <<Dimensions, cachedTree, dirty, NumCPU, saving, callers>>

\* FileStorage.Load
RLoad ==
    /\ last' = LoaderCall("load", LoadBytes(file))
    /\ UNCHANGED <<Dimensions, cachedTree, dirty, file, NumCPU, saving, storage, callers>>

\* CompressedStorage.Load
RCompressedLoad ==
    /\ last' = LoaderCall("compressed_load", CompressedLoadBytes(file))
    /\ UNCHANGED <<Dimensions, cachedTree, dirty, file, NumCPU, saving, storage, callers>>

\* NewMmapStorage
ROpenMmap ==
    /\ \E r \in {NewMmapStorage(file)} :
          /\ storage' = r.storage
          /\ file' = r.file
          /\ last' = [NoCall EXCEPT !.op = "mmap", !.err = r.err]
    /\ UNCHANGED <<Dimensions, cachedTree, dirty, NumCPU, saving, callers>>

FormatNext ==
    WSave \/ WSaveCompressed \/ XTruncate \/ XCorrupt \/ RLoad \/ RCompressedLoad
    \/ ROpenMmap

SpecFormat == FormatInit /\ [][FormatNext]_vars

(***************************************************************************)
(* SpecMmap: goroutines in MmapStorage.GetOrBuildIndex on one storage.     *)
(* m.indices is a function from the dimensions that have an entry to their *)
(* DimensionIndex; a DimensionIndex carries, besides the fields of the     *)
(* code, the number of builds of its dimension so far.  A goroutine is at  *)
(* one of: "idle", "RLock" (before m.indexMutex.RLock()), "fast" (holding  *)
(* the read lock), "Lock" (before m.indexMutex.Lock()), "check" and        *)
(* "build" (holding the write lock), "done" (returned).                    *)
(***************************************************************************)
MaxCallers == 2

MaxCalls == 2

Goroutines == 1..MaxCallers

M == storage[1]

\* MmapStorage.GetDimensionValue for a 0-based node and a 1-based dimension
GetDimensionValue(m, nodeIdx, dim) ==
    IF nodeIdx >= m.nodeCount THEN 0
    ELSE Float32At(m.mmap, m.nodeOffsets[nodeIdx + 1] + 4 + (dim - 1) * 4)

OutOfRange == "node index out of range"

GetNodeResult(err, node) == [err |-> err, node |-> node]

\* GetNode from the metadata length on; the error of json.Unmarshal is dropped
GetNodeMetadata(data, off, key, value, timestamp) ==
    IF ~Available(data, off, 4) THEN GetNodeResult(PanicError, << >>)
    ELSE IF Int32At(data, off) = 0
    THEN GetNodeResult(NoError, Node(key, value, NilMetadata, timestamp))
    ELSE IF Int32At(data, off) < 0 \/ ~Available(data, off + 4, Int32At(data, off))
    THEN GetNodeResult(PanicError, << >>)
    ELSE GetNodeResult(NoError,
            Node(key, value,
                 IF JsonValid(SliceAt(data, off + 4, Int32At(data, off)))
                 THEN JsonOf(SliceAt(data, off + 4, Int32At(data, off)))
                 ELSE NilMetadata,
                 timestamp))

\* GetNode from the timestamp length on; the error of UnmarshalBinary is dropped
GetNodeTimestamp(data, off, key, value) ==
    IF ~Available(data, off, 4) THEN GetNodeResult(PanicError, << >>)
    ELSE IF Int32At(data, off) = 0
    THEN GetNodeMetadata(data, off + 4, key, value, ZeroTime)
    ELSE IF Int32At(data, off) < 0 \/ ~Available(data, off + 4, Int32At(data, off))
    THEN GetNodeResult(PanicError, << >>)
    ELSE GetNodeMetadata(data, off + 4 + Int32At(data, off), key, value,
                         TimeOf(SliceAt(data, off + 4, Int32At(data, off))))

\* GetNode from the value length on
GetNodeValue(data, off, key) ==
    IF ~Available(data, off, 8) \/ ~Int64Fits(data, off) \/ Int64Negative(data, off)
    THEN GetNodeResult(PanicError, << >>)
    ELSE IF ~Available(data, off + 8, Int32At(data, off))
    THEN GetNodeResult(PanicError, << >>)
    ELSE GetNodeTimestamp(data, off + 8 + Int32At(data, off), key,
                          StringOf(SliceAt(data, off + 8, Int32At(data, off))))

\* GetNode from the vector on: dims is the dimension count of the record
GetNodeKey(data, off, dims) ==
    IF dims < 0 \/ ~Available(data, off, 4 * dims)
    THEN GetNodeResult(PanicError, << >>)
    ELSE GetNodeValue(data, off + 4 * dims,
                      [i \in 1..dims |-> Float32At(data, off + 4 * (i - 1))])

\* MmapStorage.GetNode for a 0-based node: a slice beyond the mapping panics
GetNode(m, nodeIdx) ==
    IF nodeIdx >= m.nodeCount THEN GetNodeResult(OutOfRange, << >>)
    ELSE IF ~Available(m.mmap, m.nodeOffsets[nodeIdx + 1], 4)
    THEN GetNodeResult(PanicError, << >>)
    ELSE GetNodeKey(m.mmap, m.nodeOffsets[nodeIdx + 1] + 4,
                    Int32At(m.mmap, m.nodeOffsets[nodeIdx + 1]))

\* the values sort.Slice compares, laid out as nodes
MappedKeys(m) ==
    [i \in 1..m.nodeCount |->
        [Key |-> [dim \in 1..m.dimensions |-> GetDimensionValue(m, i - 1, dim)]]]

\* idx, exists := m.indices[dim]; exists && idx.loaded
IndexLoaded(m, dim) == dim \in DOMAIN m.indices /\ m.indices[dim].loaded

\* the second check were it left out
DoubleCheck_Skipped(m, dim) == FALSE

\* the check repeated under the write lock
DoubleCheck(m, dim) == IndexLoaded(m, dim)

\* how often the index of dim has been built
Builds(m, dim) == IF dim \in DOMAIN m.indices THEN m.indices[dim].builds ELSE 0

\* the indices were they left in the order of the file
BuiltIndex_Unsorted(m, dim) ==
    [sortedIndices |-> [i \in 1..m.nodeCount |-> i - 1],
     loaded        |-> TRUE,
     builds        |-> Builds(m, dim) + 1]

\* the sorted indices of dim built from the mapped file
BuiltIndex(m, dim) ==
    [sortedIndices |-> SortSlice([i \in 1..m.nodeCount |-> i - 1], MappedKeys(m), dim),
     loaded        |-> TRUE,
     builds        |-> Builds(m, dim) + 1]

\* m.indices[dim] = &DimensionIndex{...}
StoreIndex(m, dim) ==
    [m EXCEPT !.indices = [d \in DOMAIN m.indices \cup {dim} |->
                             IF d = dim THEN BuiltIndex(m, dim) ELSE m.indices[d]]]

RLocked(m)   == [m EXCEPT !.indexMutex.readers = @ + 1]
RUnlocked(m) == [m EXCEPT !.indexMutex.readers = @ - 1]
Locked(m)    == [m EXCEPT !.indexMutex.writer = TRUE]
Unlocked(m)  == [m EXCEPT !.indexMutex.writer = FALSE]

IdleCaller == [pc |-> "idle", dim |-> 0, result |-> << >>, calls |-> 0]

\* the collections the mapped files hold
MmapTrees == {t \in FormatTrees : Len(t.Nodes) = FormatNodes}

MmapInit ==
    /\ \E t \in MmapTrees :
          /\ Dimensions = t.Dimensions
          /\ cachedTree = <<t>>
          /\ file = SaveBytes(t)
          /\ storage = NewMmapStorage(SaveBytes(t)).storage
    /\ dirty = FALSE
    /\ NumCPU = HostCPU
    /\ last = [NoCall EXCEPT !.op = "mmap"]
    /\ saving = NotSaving
    /\ callers = [g \in Goroutines |-> IdleCaller]

Others == <<Dimensions, cachedTree, dirty, file, NumCPU, saving>>

\* a goroutine calls GetOrBuildIndex(dim)
GCall(g) ==
    /\ callers[g].pc \in {"idle", "done"}
    /\ callers[g].calls < MaxCalls
    /\ \E dim \in 1..M.dimensions :
          callers' = [callers EXCEPT ![g] = [pc |-> "RLock", dim |-> dim,
                                             result |-> << >>,
                                             calls |-> callers[g].calls + 1]]
    /\ last' = [NoCall EXCEPT !.op = "GetOrBuildIndex"]
    /\ UNCHANGED <<storage, Others>>

\* m.indexMutex.RLock()
GRLock(g) ==
    /\ callers[g].pc = "RLock"
    /\ ~M.indexMutex.writer
    /\ storage' = <<RLocked(M)>>
    /\ callers' = [callers EXCEPT ![g].pc = "fast"]
    /\ UNCHANGED <<last, Others>>

\* the fast path: the check under the read lock, m.indexMutex.RUnlock()
GFast(g) ==
    /\ callers[g].pc = "fast"
    /\ storage' = <<RUnlocked(M)>>
    /\ callers' = IF IndexLoaded(M, callers[g].dim)
                   THEN [callers EXCEPT ![g].pc = "done",
                            ![g].result = M.indices[callers[g].dim].sortedIndices]
                   ELSE [callers EXCEPT ![g].pc = "Lock"]
    /\ UNCHANGED <<last, Others>>

\* m.indexMutex.Lock()
GLock(g) ==
    /\ callers[g].pc = "Lock"
    /\ ~M.indexMutex.writer /\ M.indexMutex.readers = 0
    /\ storage' = <<Locked(M)>>
    /\ callers' = [callers EXCEPT ![g].pc = "check"]
    /\ UNCHANGED <<last, Others>>

\* the check after the lock; if the index is there: return it, deferred Unlock
GCheck(g) ==
    /\ callers[g].pc = "check"
    /\ IF DoubleCheck(M, callers[g].dim)
       THEN /\ storage' = <<Unlocked(M)>>
            /\ callers' = [callers EXCEPT ![g].pc = "done",
                              ![g].result = M.indices[callers[g].dim].sortedIndices]
       ELSE /\ callers' = [callers EXCEPT ![g].pc = "build"]
            /\ UNCHANGED storage
    /\ UNCHANGED <<last, Others>>

\* the build: sort, store, return the indices, deferred Unlock
GBuild(g) ==
    /\ callers[g].pc = "build"
    /\ storage' = <<Unlocked(StoreIndex(M, callers[g].dim))>>
    /\ callers' = [callers EXCEPT ![g].pc = "done",
                      ![g].result = BuiltIndex(M, callers[g].dim).sortedIndices]
    /\ UNCHANGED <<last, Others>>

MmapNext ==
    \E g \in Goroutines :
        GCall(g) \/ GRLock(g) \/ GFast(g) \/ GLock(g) \/ GCheck(g) \/ GBuild(g)

SpecMmap == MmapInit /\ [][MmapNext]_vars

(***************************************************************************)
(* SpecCodec: the vector codec of src/src/types/compression.go.            *)
(*                                                                         *)
(* Numbers.  The vectors quantized here have their components in the       *)
(* float32 binade [2^23, 2^24), where the float32 values are exactly the   *)
(* integers: a component is Binade + k.  There v - min and max - min are   *)
(* exact; for the ranges used, 255 / (max - min) is a float32 or the       *)
(* product (v - min) * scale is not within a rounding error of a tie, so   *)
(* that Quantized gives the byte the float32 computation gives; and        *)
(* min + q * scale is rounded to the nearest float32, an integer, which    *)
(* q * (max - min) / 255 is never half-way to (2 * q * (max - min) is      *)
(* even, 255 * (2 * m + 1) is odd).                                        *)
(***************************************************************************)
Binade == 8388608

MaxCodecDims == 4

\* the offsets k of the components
CodecOffsets == {0, 1, 2, 3, 340}

CodecVectors ==
    UNION {[1..d -> {Binade + k : k \in CodecOffsets}] : d \in 2..MaxCodecDims}

\* QuantizedVector.Dequantize on float32: result[i] = qv.Min + float32(v) * scale
\* with scale = (qv.Max - qv.Min) / 255.0, rounded to the nearest float32
DequantizeRounded(qv) ==
    [i \in 1..qv.Dims |->
        qv.Min + (2 * qv.Values[i] * (qv.Max - qv.Min) + 255) \div 510]

\* int16(x): the low 16 bits of x in two's complement
Int16(x) == ((x + 32768) % 65536) - 32768

\* uint64(x) for an int16 x or a sum below 2^31, as four 16-bit limbs, the
\* lowest first; a negative x is sign-extended
Uint64(x) ==
    IF x >= 0 THEN <<x % 65536, (x \div 65536) % 65536, 0, 0>>
    ELSE <<65536 + x, 65535, 65535, 65535>>

\* the carry out of limb i of a + b
RECURSIVE Carry(_, _, _)
Carry(a, b, i) ==
    IF i = 0 THEN 0 ELSE (a[i] + b[i] + Carry(a, b, i - 1)) \div 65536

\* a + b in uint64: the carry out of the highest limb is dropped
AddUint64(a, b) ==
    [i \in 1..4 |-> (a[i] + b[i] + Carry(a, b, i - 1)) % 65536]

\* the squares were they computed in uint64 from the start
SquareTerm_Wide(a, b) == Uint64((a - b) * (a - b))

\* diff := int16(a) - int16(b); uint64(diff * diff): the product is an int16
SquareTerm(a, b) == Uint64(Int16(Int16(a - b) * Int16(a - b)))

\* for i := 0; i < qv.Dims; i++ { sumSquares += uint64(diff * diff) }
RECURSIVE SumSquaresUint64(_, _, _)
SumSquaresUint64(values, others, i) ==
    IF i = 0 THEN Uint64(0)
    ELSE AddUint64(SumSquaresUint64(values, others, i - 1),
                   SquareTerm(values[i], others[i]))

\* QuantizedVector.ApproximateDistance; the distance returned is
\* sqrt(sumSquares) * avgScale, carried as its two factors
ApproximateDistance(qv, other) ==
    IF qv.Dims # other.Dims
    THEN [err |-> DimensionMismatch, sumSquares |-> Uint64(0),
          avgScale |-> [num |-> 0, den |-> 1]]
    ELSE [err |-> NoError,
          sumSquares |-> SumSquaresUint64(qv.Values, other.Values, qv.Dims),
          avgScale |-> [num |-> (qv.Max - qv.Min) + (other.Max - other.Min),
                        den |-> 2 * 255]]

\* the quantized vectors handed to ApproximateDistance
CodecBytes == {0, 74, 181, 182, 255}

QuantizedVectors ==
    UNION {{[Dims |-> d, Min |-> 0, Max |-> max, Values |-> values] :
               max \in {255, 510}, values \in [1..d -> CodecBytes]} : d \in 1..2}

\* the calls to make: the inputs are drawn here, the actions apply the codec
CodecCalls ==
    {[NoCall EXCEPT !.op = "call_quantize", !.key = vec] : vec \in CodecVectors}
    \cup {[NoCall EXCEPT !.op = "call_approximate_distance", !.items = <<qv, other>>] :
              qv \in QuantizedVectors, other \in QuantizedVectors}

CodecInit ==
    /\ Dimensions = 0
    /\ cachedTree = << >>
    /\ dirty = FALSE
    /\ file = NoFile
    /\ NumCPU = HostCPU
    /\ Idle
    /\ last \in CodecCalls

\* QuantizeVector(vec) and Dequantize of what it returns
QRoundTrip ==
    /\ last.op = "call_quantize"
    /\ last' = [last EXCEPT !.op = "quantize",
                            !.items = <<QuantizeVector(last.key)>>,
                            !.results = DequantizeRounded(QuantizeVector(last.key))]
    /\ UNCHANGED <<Dimensions, cachedTree, dirty, file, NumCPU, saving, storage, callers>>

QApproximateDistance ==
    /\ last.op = "call_approximate_distance"
    /\ LET r == ApproximateDistance(last.items[1], last.items[2])
       IN  last' = [last EXCEPT !.op = "approximate_distance", !.err = r.err,
                                !.results = r.sumSquares,
                                !.threshold = r.avgScale]
    /\ UNCHANGED <<Dimensions, cachedTree, dirty, file, NumCPU, saving, storage, callers>>

CodecNext == QRoundTrip \/ QApproximateDistance

SpecCodec == CodecInit /\ [][CodecNext]_vars

(***************************************************************************)
(* SpecAppend: inserts, batch inserts, searches and saves on a Tree whose  *)
(* callers keep the key slices they passed and write into them later.      *)
(* callers holds those slices: the contents, the position of the node the  *)
(* slice was passed for, and the positions of the nodes whose Key shares   *)
(* the backing array of the slice.                                         *)
(***************************************************************************)
AppendDimensions == 2

AppendInit ==
    /\ Dimensions = AppendDimensions
    /\ cachedTree = <<NewTree(AppendDimensions)>>
    /\ dirty = FALSE
    /\ file = NoFile
    /\ NumCPU = HostCPU
    /\ Idle
    /\ last = NoCall

\* the key stored were it the caller's slice itself
SharedWithCaller_NoCopy(nodeIdx) == {nodeIdx}

\* keyCopy := make([]float32, t.Dimensions); copy(keyCopy, key): the node at
\* nodeIdx gets an array of its own, no node shares the caller's one
SharedWithCaller(nodeIdx) == {}

CallerSlice(key, nodeIdx) ==
    [passed |-> key, data |-> key, pos |-> nodeIdx,
     shared |-> SharedWithCaller(nodeIdx), modified |-> FALSE]

\* the value a caller writes into a slice
Scribble == 9

AInsert ==
    \E item \in InputItems(Tree.Dimensions) :
        LET r == InsertWithMetadata(Tree, item.Key, item.Value, item.Metadata,
                                    TimeNow(Clock(Tree.Nodes)))
        IN  /\ Len(r.tree.Nodes) <= MaxNodes
            /\ cachedTree' = <<r.tree>>
            /\ last' = InsertCall(r.err, item)
            /\ callers' = IF r.err = NoError
                          THEN Append(callers, CallerSlice(item.Key, Len(Tree.Nodes)))
                          ELSE callers
            /\ UNCHANGED <<Dimensions, dirty, file, NumCPU, saving, storage>>

ABatchInsert ==
    \E items \in InputBatches(Tree.Dimensions) :
        /\ Len(Tree.Nodes) + Len(items) <= MaxNodes
        /\ LET r == TreeBatchInsert(Tree, items)
           IN  /\ cachedTree' = <<r.tree>>
               /\ last' = BatchCall(r.err, items)
               /\ callers' = IF r.err = NoError
                             THEN callers \o [i \in 1..Len(items) |->
                                      CallerSlice(items[i].Key, Len(Tree.Nodes) + i - 1)]
                             ELSE callers
        /\ UNCHANGED <<Dimensions, dirty, file, NumCPU, saving, storage>>

ASearch == TSearchOver({1}, {ZeroThreshold}, {MaxK}, {NilFilter})

\* FileStorage.Save(tree)
ASave ==
    /\ file' = Save(Tree)
    /\ last' = [NoCall EXCEPT !.op = "flush"]
    /\ UNCHANGED <<Dimensions, cachedTree, dirty, NumCPU, saving, storage, callers>>

\* a caller writes into a slice it passed earlier (into its first component):
\* the write shows in every node whose Key shares the array
AModifyKey ==
    \E i \in DOMAIN callers, dim \in {1} :
        /\ ~callers[i].modified
        /\ callers' = [callers EXCEPT ![i].data[dim] = Scribble, ![i].modified = TRUE]
        /\ cachedTree' =
              <<[Tree EXCEPT !.Nodes =
                   [p \in DOMAIN Tree.Nodes |->
                      IF (p - 1) \in callers[i].shared
                      THEN [Tree.Nodes[p] EXCEPT !.Key[dim] = Scribble]
                      ELSE Tree.Nodes[p]]]>>
        /\ last' = [NoCall EXCEPT !.op = "modify_key"]
        /\ UNCHANGED <<Dimensions, dirty, file, NumCPU, saving, storage>>

AppendNext == AInsert \/ ABatchInsert \/ ASearch \/ ASave \/ AModifyKey

SpecAppend == AppendInit /\ [][AppendNext]_vars

(***************************************************************************)
(* SpecRetry: Client.InsertWithMetadata when the flush it triggers, or the *)
(* load of the file, fails.  One client has batch-inserted PolicyStart     *)
(* nodes, so that its inserts reach a multiple of FlushInterval; the other *)
(* client is new on a path whose file ends after its header.  Save fails   *)
(* in os.Create or in one of its writes.                                   *)
(***************************************************************************)
\* the writes after which Save may fail: none, the header
SavePoints == {0, 2}

\* the file after Save(t) failed in the write that follows k writes
SaveInterrupted(t, k) == [exists |-> TRUE, data |-> SubSeq(Save(t).data, 1, k)]

\* Save of the cached tree returning an error: the files it can leave behind
\* (os.Create failed: the file is untouched)
SaveFailures(c) ==
    {c.file} \cup {SaveInterrupted(c.cachedTree[1], k) : k \in SavePoints}

\* Client.Flush with a Save that may fail: the set of [err, c]
FlushOutcomes(c) ==
    IF c.dirty /\ c.cachedTree # << >>
    THEN {FlushSucceeded([c EXCEPT !.file = Save(c.cachedTree[1])])}
         \cup {FlushFailed([c EXCEPT !.file = f], WriteError) : f \in SaveFailures(c)}
    ELSE {[err |-> NoError, c |-> c]}

\* InsertWithMetadata after tree.InsertWithMetadata returned r: the node is
\* appended and dirty is set before the periodic flush runs
InsertedOutcomes(c, r) ==
    IF r.err # NoError THEN {[err |-> r.err, c |-> c]}
    ELSE IF Len(r.tree.Nodes) % FlushInterval = 0
    THEN FlushOutcomes([c EXCEPT !.cachedTree = <<r.tree>>, !.dirty = TRUE])
    ELSE {[err |-> NoError, c |-> [c EXCEPT !.cachedTree = <<r.tree>>, !.dirty = TRUE]]}

InsertLoadedOutcomes(g, embedding, text, metadata) ==
    IF g.err # NoError THEN {[err |-> LoadError, c |-> g.c]}
    ELSE InsertedOutcomes(EnsureDimensions(g.c),
            InsertWithMetadata(EnsureDimensions(g.c).cachedTree[1], embedding, text,
                metadata, TimeNow(Clock(EnsureDimensions(g.c).cachedTree[1].Nodes))))

\* Client.InsertWithMetadata with a Save that may fail: the set of [err, c]
ClientInsertOutcomes(c, embedding, text, metadata) ==
    IF Len(embedding) # c.Dimensions THEN {[err |-> DimensionMismatch, c |-> c]}
    ELSE InsertLoadedOutcomes(getTree(c), embedding, text, metadata)

\* a file whose header announces one node and that holds no record
HeaderOnly == SaveInterrupted(AfterBatchInsert(1).cachedTree[1], 2)

RetryInit ==
    /\ \E c \in {AfterBatchInsert(PolicyStart), NewClient(HeaderOnly, 1)} :
          /\ Dimensions = c.Dimensions
          /\ cachedTree = c.cachedTree
          /\ dirty = c.dirty
          /\ file = c.file
    /\ NumCPU = HostCPU
    /\ last = NewCall(1)
    /\ Idle

YInsert ==
    \E item \in PolicyItems :
        \E r \in ClientInsertOutcomes(Client, item.Key, item.Value, item.Metadata) :
            /\ r.c.cachedTree # << >> => Len(r.c.cachedTree[1].Nodes) <= PolicyNodes
            /\ SetClient(r.c)
            /\ last' = ClientCall(InsertCall(r.err, item))
            /\ UNCHANGED <<NumCPU, saving, storage, callers>>

YFlush ==
    \E r \in FlushOutcomes(Client) :
        /\ SetClient(r.c)
        /\ last' = ClientCall(FlushCall(r.err))
        /\ UNCHANGED <<NumCPU, saving, storage, callers>>

RetryNext == YInsert \/ YFlush

SpecRetry == RetryInit /\ [][RetryNext]_vars

(***************************************************************************)
(* SpecReaders and SpecWriters: goroutines that call Tree.SearchWithFilter *)
(* and Tree.InsertWithMetadata on one Tree.  Neither the Tree nor the      *)
(* Client nor Manager.Insert / Manager.Search takes a lock around these    *)
(* calls, so the goroutines interleave statement by statement.  A search   *)
(* is at one of: "idle", "ensure" (before ensureIndex), "make" (in         *)
(* RebuildIndex, before make and the identity fill), "sort" (before        *)
(* sort.Slice), "clear" (before indexDirty = false), "scan" (before the    *)
(* dimension search).  An insert is at one of: "read" (before append reads *)
(* t.Nodes), "store" (before t.Nodes is assigned), "index" (before the     *)
(* index update).  The tree has one dimension.                             *)
(***************************************************************************)
\* inserts one goroutine makes at most
RaceInserts == 1

RaceItemA == Item(<<2>>, "a", NilMetadata)

RaceItemB == Item(<<1>>, "b", NilMetadata)

RaceItems == {RaceItemA, RaceItemB}

RaceQueries == {<<1>>, <<2>>}

\* the tree after one insert of item, made alone
Inserting(t, item) ==
    InsertWithMetadata(t, item.Key, item.Value, item.Metadata,
                       TimeNow(Clock(t.Nodes))).tree

\* the trees the goroutines start on: one and two inserts into a new tree
\* (index never built), the same after a search, and an insert after a search
RaceTrees ==
    {Inserting(NewTree(1), RaceItemA),
     Inserting(Inserting(NewTree(1), RaceItemA), RaceItemB),
     ensureIndex(Inserting(NewTree(1), RaceItemA)),
     ensureIndex(Inserting(Inserting(NewTree(1), RaceItemA), RaceItemB)),
     Inserting(ensureIndex(Inserting(NewTree(1), RaceItemB)), RaceItemA)}

IdleGoroutine ==
    [pc |-> "idle", op |-> "none", arg |-> << >>, nodeIdx |-> 0, nodes |-> << >>,
     err |-> NoError, result |-> << >>, alone |-> {}, calls |-> 0]

RaceInit ==
    /\ \E t \in RaceTrees :
          /\ Dimensions = t.Dimensions
          /\ cachedTree = <<t>>
    /\ dirty = FALSE
    /\ file = NoFile
    /\ NumCPU = HostCPU
    /\ last = NewCall(1)
    /\ saving = NotSaving
    /\ storage = NoStorage
    /\ callers = [g \in Goroutines |-> IdleGoroutine]

\* the texts of the nodes at the positions of a result
Texts(t, results) == [i \in DOMAIN results |-> t.Nodes[results[i] + 1].Value]

\* what a search for query returns on t when nothing else runs
AloneResults(t, query) ==
    {Texts(o.tree, o.results) :
        o \in SearchWithFilter(t, query, 0, ZeroThreshold, MaxK, NilFilter, HostCPU, <<0>>)}

\* SearchWithFilter up to ensureIndex: the dimension check, len(t.Nodes) == 0
SCall(g) ==
    /\ callers[g].pc = "idle"
    /\ \E query \in RaceQueries :
          callers' = [callers EXCEPT ![g] =
             [@ EXCEPT !.pc = IF Len(Tree.Nodes) = 0 THEN "idle" ELSE "ensure",
                       !.op = "search", !.arg = query, !.err = NoError,
                       !.result = << >>, !.alone = AloneResults(Tree, query)]]
    /\ last' = [NoCall EXCEPT !.op = "search"]
    /\ UNCHANGED <<storage, Others>>

\* ensureIndex: if t.indexDirty || len(t.Index) == 0 || len(t.Index[0]) == 0
SEnsure(g) ==
    /\ callers[g].pc = "ensure"
    /\ callers' = [callers EXCEPT ![g].pc =
                      IF Tree.indexDirty \/ Len(Tree.Index) = 0
                         \/ Len(Tree.Index[1]) = 0
                      THEN "make" ELSE "scan"]
    /\ last' = [NoCall EXCEPT !.op = "ensureIndex"]
    /\ UNCHANGED <<storage, Others>>

\* RebuildIndex: t.Index[dim] = make(...) filled with 0..nodeCount-1
SMake(g) ==
    /\ callers[g].pc = "make"
    /\ cachedTree' = <<[Tree EXCEPT !.Index[1] = [i \in 1..Len(Tree.Nodes) |-> i - 1]]>>
    /\ callers' = [callers EXCEPT ![g].pc = "sort"]
    /\ last' = [NoCall EXCEPT !.op = "make"]
    /\ UNCHANGED <<Dimensions, dirty, file, NumCPU, saving, storage>>

\* RebuildIndex: sort.Slice(t.Index[dim], ...) sorts the slice that is there
SSort(g) ==
    /\ callers[g].pc = "sort"
    /\ cachedTree' = <<[Tree EXCEPT !.Index[1] = SortSlice(Tree.Index[1], Tree.Nodes, 1)]>>
    /\ callers' = [callers EXCEPT ![g].pc = "clear"]
    /\ last' = [NoCall EXCEPT !.op = "sort"]
    /\ UNCHANGED <<Dimensions, dirty, file, NumCPU, saving, storage>>

\* RebuildIndex: t.indexDirty = false
SClear(g) ==
    /\ callers[g].pc = "clear"
    /\ cachedTree' = <<[Tree EXCEPT !.indexDirty = FALSE]>>
    /\ callers' = [callers EXCEPT ![g].pc = "scan"]
    /\ last' = [NoCall EXCEPT !.op = "clear"]
    /\ UNCHANGED <<Dimensions, dirty, file, NumCPU, saving, storage>>

\* the dimension search on the index as it is, the filter, the distances,
\* the result
SScan(g) ==
    /\ callers[g].pc = "scan"
    /\ \E o \in SearchResults(Tree,
                  parallelDimensionSearch(Tree, callers[g].arg, 0, NumCPU, <<0>>),
                  callers[g].arg, 0, ZeroThreshold, MaxK, NilFilter) :
          /\ callers' = [callers EXCEPT ![g].pc = "idle", ![g].err = o.err,
                            ![g].result = Texts(Tree, o.results)]
          /\ last' = [NoCall EXCEPT !.op = "scan", !.err = o.err,
                                    !.key = callers[g].arg,
                                    !.results = Texts(Tree, o.results)]
    /\ UNCHANGED <<storage, Others>>

\* InsertWithMetadata: the dimension check, nodeIdx := int32(len(t.Nodes))
ICall(g) ==
    /\ callers[g].pc = "idle"
    /\ callers[g].calls < RaceInserts
    /\ \E item \in RaceItems :
          callers' = [callers EXCEPT ![g] =
             [@ EXCEPT !.pc = "read", !.op = "insert", !.arg = item,
                       !.nodeIdx = Len(Tree.Nodes), !.err = NoError,
                       !.result = << >>, !.alone = {}, !.calls = @ + 1]]
    /\ last' = [NoCall EXCEPT !.op = "insert"]
    /\ UNCHANGED <<storage, Others>>

\* append(t.Nodes, node) reads the slice t.Nodes
IRead(g) ==
    /\ callers[g].pc = "read"
    /\ callers' = [callers EXCEPT ![g].pc = "store", ![g].nodes = Tree.Nodes]
    /\ last' = [NoCall EXCEPT !.op = "read"]
    /\ UNCHANGED <<storage, Others>>

\* t.Nodes = append(...): the slice read, one node longer
IStore(g) ==
    /\ callers[g].pc = "store"
    /\ cachedTree' = <<[Tree EXCEPT !.Nodes =
            Append(callers[g].nodes,
                   Node(callers[g].arg.Key, callers[g].arg.Value,
                        callers[g].arg.Metadata, TimeNow(Clock(callers[g].nodes))))]>>
    /\ callers' = [callers EXCEPT ![g].pc = "index", ![g].nodes = << >>]
    /\ last' = [NoCall EXCEPT !.op = "store"]
    /\ UNCHANGED <<Dimensions, dirty, file, NumCPU, saving, storage>>

\* the incremental index update with the nodeIdx read at the call, or the
\* dirty mark; return nil
IIndex(g) ==
    /\ callers[g].pc = "index"
    /\ cachedTree' =
          IF Len(Tree.Index[1]) > 0 /\ ~Tree.indexDirty
          THEN <<[Tree EXCEPT !.Index[1] =
                    Splice(Tree.Index[1],
                           InsertPos(Tree.Nodes, Tree.Index[1], 1, callers[g].arg.Key),
                           callers[g].nodeIdx)]>>
          ELSE <<[Tree EXCEPT !.indexDirty = TRUE]>>
    /\ callers' = [callers EXCEPT ![g].pc = "idle"]
    /\ last' = InsertCall(NoError, callers[g].arg)
    /\ UNCHANGED <<Dimensions, dirty, file, NumCPU, saving, storage>>

ReadersNext ==
    \E g \in Goroutines :
        SCall(g) \/ SEnsure(g) \/ SMake(g) \/ SSort(g) \/ SClear(g) \/ SScan(g)

SpecReaders == RaceInit /\ [][ReadersNext]_vars

WritersNext ==
    \E g \in Goroutines :
        \/ SCall(g) \/ SEnsure(g) \/ SMake(g) \/ SSort(g) \/ SClear(g) \/ SScan(g)
        \/ ICall(g) \/ IRead(g) \/ IStore(g) \/ IIndex(g)

SpecWriters == RaceInit /\ [][WritersNext]_vars

(***************************************************************************)
(* Reference definitions used by the properties: computed from the nodes   *)
(* alone, without the index.                                               *)
(***************************************************************************)
Abs(x) == IF x < 0 THEN -x ELSE x

Positions(t) == 0..(Len(t.Nodes) - 1)

NodeAt(t, pos) == t.Nodes[pos + 1]

\* |q[d] - key[d]| <= eps in every dimension
InBox(t, pos, query, epsilon) ==
    \A d \in 1..t.Dimensions : Abs(query[d] - NodeAt(t, pos).Key[d]) <= epsilon

DistanceSquared(t, pos, query) == SumSquares(query, NodeAt(t, pos).Key)

\* true Euclidean distance <= eps * sqrt(D) * (1 - tau), with tau = num/den
InRadius(t, pos, query, epsilon, threshold) ==
    /\ epsilon * (threshold.den - threshold.num) >= 0
    /\ DistanceSquared(t, pos, query) * threshold.den * threshold.den
         <= epsilon * epsilon * t.Dimensions
              * (threshold.den - threshold.num) * (threshold.den - threshold.num)

\* the positions in the box and in the radius
RecallSet(t, query, epsilon, threshold) ==
    {pos \in Positions(t) :
        InBox(t, pos, query, epsilon) /\ InRadius(t, pos, query, epsilon, threshold)}

\* ... that also match the filter
AdmittedSet(t, query, epsilon, threshold, filter) ==
    {pos \in RecallSet(t, query, epsilon, threshold) : MatchesFilter(NodeAt(t, pos), filter)}

\* a precedes b in the order (distance ascending, then position ascending)
Precedes(t, query, a, b) ==
    \/ DistanceSquared(t, a, query) < DistanceSquared(t, b, query)
    \/ /\ DistanceSquared(t, a, query) = DistanceSquared(t, b, query)
       /\ a < b

\* the sequence of S in the order (distance, position)
OrderedByDistanceThenPosition(t, query, S) ==
    CHOOSE s \in Perms(S) : \A i \in 1..(Len(s) - 1) : Precedes(t, query, s[i], s[i + 1])

Searched == last.op = "search" /\ last.err = NoError

\* the nodes a search hands to its caller
ReturnedNodes == [i \in DOMAIN last.results |-> NodeAt(Tree, last.results[i])]

SameSearchInputs(a, b) ==
    /\ a.key = b.key /\ a.epsilon = b.epsilon /\ a.threshold = b.threshold
    /\ a.topK = b.topK /\ a.filter = b.filter

(***************************************************************************)
(* C2.  Every node a search returns lies within eps of the query in every  *)
(* one of its D dimensions: |q[d] - key[d]| <= eps for all d.              *)
(***************************************************************************)
C2_ResultsWithinEpsilon ==
    Searched =>
        \A i \in DOMAIN last.results :
            InBox(Tree, last.results[i], last.key, last.epsilon)

\* a search that returned a node and left out a node outside the box
C2_Witness ==
    /\ Searched
    /\ last.results # << >>
    /\ \E pos \in Positions(Tree) : ~InBox(Tree, pos, last.key, last.epsilon)

(***************************************************************************)
(* C3 as claimed.  The set of positions a search returns equals the set of *)
(* positions whose distance is <= eps * sqrt(D) * (1 - tau) and whose      *)
(* every per-dimension difference is <= eps.                               *)
(***************************************************************************)
C3_ExactRecall_Claimed ==
    Searched =>
        Range(last.results) = RecallSet(Tree, last.key, last.epsilon, last.threshold)

(***************************************************************************)
(* C3 amended.  The positions returned are min(k, |F|) distinct members of *)
(* F, the positions that match the filter, are in the radius and in the    *)
(* box; no member of F left out is strictly nearer than a returned one;    *)
(* and the returned set is F itself when k >= |F|.                         *)
(***************************************************************************)
C3_RecallTopK ==
    Searched =>
        LET F == AdmittedSet(Tree, last.key, last.epsilon, last.threshold, last.filter)
            R == Range(last.results)
        IN  /\ R \subseteq F
            /\ Len(last.results) = Min(last.topK, Cardinality(F))
            /\ Cardinality(R) = Len(last.results)
            /\ \A out \in F \ R : \A r \in R :
                   DistanceSquared(Tree, r, last.key) <= DistanceSquared(Tree, out, last.key)
            /\ (last.topK >= Cardinality(F) => R = F)

\* a search that top-k truncated: more positions were admitted than returned
C3_Witness ==
    /\ Searched
    /\ Cardinality(AdmittedSet(Tree, last.key, last.epsilon, last.threshold,
                               last.filter)) > last.topK
    /\ Len(last.results) = last.topK

(***************************************************************************)
(* C4 as claimed.  A search returns the admitted nodes sorted ascending by *)
(* distance, equal distances by insertion position ascending, truncated to *)
(* top-k; in Scenario A (A, B, C inserted in that order, the query         *)
(* [0.1,0.25,0.25], eps 0.2, tau 0.5, k 2) the result is [A, B].           *)
(***************************************************************************)
ScenarioA ==
    /\ Searched
    /\ Len(Tree.Nodes) = 3
    /\ Tree.Nodes[1].Value = "A" /\ Tree.Nodes[2].Value = "B" /\ Tree.Nodes[3].Value = "C"
    /\ last.key = <<2, 5, 5>> /\ last.epsilon = 4
    /\ last.threshold = [num |-> 1, den |-> 2] /\ last.topK = 2
    /\ last.filter = NilFilter

C4_SortedByDistanceThenPosition ==
    /\ Searched =>
          last.results =
              Truncate(OrderedByDistanceThenPosition(Tree, last.key,
                          AdmittedSet(Tree, last.key, last.epsilon, last.threshold,
                                      last.filter)),
                       last.topK)
    /\ ScenarioA => last.results = <<0, 1>>

(***************************************************************************)
(* C5 as claimed.  For a fixed collection and fixed inputs, two executions *)
(* of search return identical result sequences, equal-distance results     *)
(* included.  Stated on two consecutive searches with the same inputs on   *)
(* the same tree.                                                          *)
(***************************************************************************)
C5_Deterministic ==
    [][(/\ Searched /\ Searched'
        /\ SameSearchInputs(last, last')
        /\ cachedTree' = cachedTree)
       => ReturnedNodes' = ReturnedNodes]_vars

(***************************************************************************)
(* C6 as claimed.  The parallel scan gives every position the hit count of *)
(* the sequential scan, for every worker count and merge order, and the    *)
(* parallel search returns the same ordered result as the sequential       *)
(* search.  Stated on a parallel and a sequential search that follow each  *)
(* other with the same inputs on the same tree.                            *)
(***************************************************************************)
SearchedEither == last.op \in {"search", "search_sequential"} /\ last.err = NoError

C6_ParallelEqualsSequential ==
    [][(/\ SearchedEither /\ SearchedEither'
        /\ last.op # last'.op
        /\ SameSearchInputs(last, last')
        /\ cachedTree' = cachedTree)
       => (last'.hits = last.hits /\ ReturnedNodes' = ReturnedNodes)]_vars

(***************************************************************************)
(* C6, the part on the hit counts: after a parallel search, with any       *)
(* number of workers and any merge order, the merged map equals the map of *)
(* the sequential scan of all D dimensions.                                *)
(***************************************************************************)
C6_HitCountsEqualSequential ==
    (Searched /\ Tree.Nodes # << >>) =>
        last.hits = sequentialDimensionSearch(Tree, last.key, last.epsilon)

\* a parallel search with more than one worker that hit a node in every dimension
C6_HitCounts_Witness ==
    /\ Searched
    /\ last.workers > 1
    /\ \E pos \in DOMAIN last.hits : last.hits[pos] = Tree.Dimensions


(***************************************************************************)
(* Reference definitions for the client: the collection behind a client is *)
(* its cached tree, or the tree its file loads to.                         *)
(***************************************************************************)
TreeOf(c) == getTree(c).c.cachedTree[1]

Collection == TreeOf(Client)

\* a step leaves the collection as it was: nothing of the client changed, or
\* the step only loaded the tree that the file holds
CollectionUnchanged ==
    \/ (cachedTree' = cachedTree /\ file' = file /\ Dimensions' = Dimensions)
    \/ Collection' = Collection

IsPermutation(index, n) ==
    /\ Len(index) = n
    /\ Range(index) = 0..(n - 1)

\* index is in non-decreasing order of key[dim]
SortedByKey(t, index, dim) ==
    \A i \in 1..(Len(index) - 1) :
        NodeAt(t, index[i]).Key[dim] <= NodeAt(t, index[i + 1]).Key[dim]

\* index is in ascending order of (key[dim], position)
SortedByKeyThenPosition(t, index, dim) ==
    \A i \in 1..(Len(index) - 1) :
        \/ NodeAt(t, index[i]).Key[dim] < NodeAt(t, index[i + 1]).Key[dim]
        \/ /\ NodeAt(t, index[i]).Key[dim] = NodeAt(t, index[i + 1]).Key[dim]
           /\ index[i] < index[i + 1]

\* the number of nodes the header of the file announces
FileNodeCount(f) == IF f.exists /\ Len(f.data) >= 2 THEN f.data[2].n ELSE 0

\* two nodes are equal: keys, values, metadata and the instants of their timestamps
SameNode(a, b) ==
    /\ a.Key = b.Key
    /\ a.Value = b.Value
    /\ a.Metadata = b.Metadata
    /\ a.Timestamp.wall = b.Timestamp.wall

\* the result sequences a search may return on t, as sequences of nodes
ResultsOn(t, query, epsilon, filter) ==
    {[i \in DOMAIN o.results |-> NodeAt(o.tree, o.results[i]).Value] :
        o \in SearchWithFilter(t, query, epsilon, ZeroThreshold, MaxK, filter, 1, <<0>>)}

(***************************************************************************)
(* C1 as stated.  Whenever index_dirty is false, every index[d] is a       *)
(* permutation of 0..N-1 sorted ascending by (key[d], position): entries   *)
(* with equal key[d] are in ascending position order.                      *)
(***************************************************************************)
C1_SortedByKeyThenPosition ==
    (cachedTree # << >> /\ ~Tree.indexDirty /\ Tree.Nodes # << >>) =>
        \A dim \in 1..Tree.Dimensions :
            /\ IsPermutation(Tree.Index[dim], Len(Tree.Nodes))
            /\ SortedByKeyThenPosition(Tree, Tree.Index[dim], dim)

(***************************************************************************)
(* C1 as amended.  Whenever index_dirty is false and the collection has    *)
(* nodes, every index[d] is a permutation of 0..N-1 in non-decreasing      *)
(* order of key[d]; the order among entries of equal key[d] is not fixed.  *)
(***************************************************************************)
C1_SortedByKey ==
    (cachedTree # << >> /\ ~Tree.indexDirty /\ Tree.Nodes # << >>) =>
        \A dim \in 1..Tree.Dimensions :
            /\ IsPermutation(Tree.Index[dim], Len(Tree.Nodes))
            /\ SortedByKey(Tree, Tree.Index[dim], dim)

\* an insert spliced a node into a clean index that holds an equal key already
C1_Witness ==
    /\ cachedTree # << >> /\ ~Tree.indexDirty
    /\ last.op = "insert" /\ last.err = NoError
    /\ \E pos \in Positions(Tree) :
          /\ pos < Len(Tree.Nodes) - 1
          /\ NodeAt(Tree, pos).Key = last.key

(***************************************************************************)
(* C7.  batch_insert checks the dimension of every item before it changes  *)
(* anything: it fails exactly when some item has len(key) # D, and then    *)
(* nodes, permutations, dirty flag and file are as before; when it         *)
(* succeeds the node count grows by len(items), the items are appended in  *)
(* their order, and every index[d] is a sorted permutation of 0..N-1.      *)
(***************************************************************************)
C7_BatchInsertAllOrNothing ==
    [][last'.op = "batch_insert" =>
         IF \E i \in DOMAIN last'.items : Len(last'.items[i].Key) # Collection.Dimensions
         THEN /\ last'.err = DimensionMismatch
              /\ CollectionUnchanged
              /\ dirty' = dirty
              /\ file' = file
         ELSE /\ last'.err = NoError
              /\ Len(Collection'.Nodes) = Len(Collection.Nodes) + Len(last'.items)
              /\ SubSeq(Collection'.Nodes, 1, Len(Collection.Nodes)) = Collection.Nodes
              /\ \A i \in DOMAIN last'.items :
                    LET n == Collection'.Nodes[Len(Collection.Nodes) + i]
                    IN  /\ n.Key = last'.items[i].Key
                        /\ n.Value = last'.items[i].Value
                        /\ n.Metadata = last'.items[i].Metadata
              /\ ~Collection'.indexDirty
              /\ \A dim \in 1..Collection'.Dimensions :
                    /\ IsPermutation(Collection'.Index[dim], Len(Collection'.Nodes))
                    /\ SortedByKey(Collection', Collection'.Index[dim], dim)]_vars

\* a batch of MaxBatch different items went into a collection that had a node
C7_Witness ==
    /\ last.op = "batch_insert" /\ last.err = NoError
    /\ Len(last.items) = MaxBatch
    /\ last.items[1] # last.items[MaxBatch]
    /\ cachedTree # << >>
    /\ Len(Tree.Nodes) > MaxBatch

(***************************************************************************)
(* C8.  An insert or a search with a vector whose length differs from D    *)
(* returns a dimension mismatch error and leaves the collection as it was  *)
(* (nodes, permutations, dirty flag, file); so an insert of a length-3     *)
(* vector into a freshly opened empty collection of D = 4 fails and the    *)
(* node count stays 0.                                                     *)
(***************************************************************************)
C8_WrongLengthRejected ==
    [][(/\ last'.op \in {"insert", "search"}
        /\ Len(last'.key) # Collection.Dimensions)
       => /\ last'.err = DimensionMismatch
          /\ CollectionUnchanged
          /\ dirty' = dirty
          /\ file' = file]_vars

\* the length-3 vector refused by the fresh, empty collection opened with D = 4
C8_Witness ==
    /\ last.op = "insert" /\ last.err = DimensionMismatch
    /\ last.declared = 4 /\ Dimensions = 4
    /\ Len(last.key) = 3
    /\ file = NoFile
    /\ GetNodeCount(Client).count = 0

(***************************************************************************)
(* C9.  Round trip: after a flush, opening the same path again gives a     *)
(* collection with the same D and node count, whose nodes equal the        *)
(* flushed nodes position by position (keys, values, metadata,             *)
(* timestamps), and on which every search returns what it returns on the   *)
(* flushed collection for the same query and filter.                       *)
(***************************************************************************)
C9_RoundTrip ==
    (last.op = "flush" /\ last.err = NoError /\ cachedTree # << >>) =>
        LET reopened == TreeOf(NewClient(file, last.declared))
        IN  /\ reopened.Dimensions = Tree.Dimensions
            /\ Len(reopened.Nodes) = Len(Tree.Nodes)
            /\ \A i \in DOMAIN Tree.Nodes : SameNode(reopened.Nodes[i], Tree.Nodes[i])
            /\ \A query \in {q \in Queries : Len(q) = Tree.Dimensions},
                  epsilon \in Epsilons(Tree.Dimensions), filter \in Filters(Tree.Dimensions) :
                  ResultsOn(reopened, query, epsilon, filter)
                      = ResultsOn(Tree, query, epsilon, filter)

InvalidArgument == "invalid argument"

InvalidSearchArguments(call) ==
    \/ call.epsilon < 0
    \/ call.topK < 1
    \/ call.threshold.num < 0
    \/ call.threshold.num > call.threshold.den

C11_InvalidArgumentsRejected ==
    [][/\ (last'.op = "new" /\ last'.declared <= 0) => last'.err = InvalidArgument
       /\ (/\ last'.op = "search"
           /\ Len(last'.key) = Tree.Dimensions
           /\ InvalidSearchArguments(last'))
          => (last'.err = InvalidArgument /\ cachedTree' = cachedTree)]_vars


(***************************************************************************)
(* C12.  A search with a query of length D does not fail because the       *)
(* collection is empty or because the filter or the distance bound rejects *)
(* every candidate: it returns the empty result sequence and no error.     *)
(***************************************************************************)
C12_EmptyResultIsNoError ==
    (last.op = "search" /\ Len(last.key) = Tree.Dimensions) =>
        /\ last.err = NoError
        /\ (\/ Tree.Nodes = << >>
            \/ AdmittedSet(Tree, last.key, last.epsilon, last.threshold, last.filter) = {})
           => last.results = << >>

\* a search whose filter rejected every node of the box and the radius
C12_Witness ==
    /\ Searched
    /\ last.results = << >>
    /\ ~last.filter.isNil
    /\ RecallSet(Tree, last.key, last.epsilon, last.threshold) # {}


(***************************************************************************)
(* C13 as stated.  A node matches the metadata of a filter iff for every   *)
(* entry of the filter the node's metadata holds that key with an equal    *)
(* value (arrays element by element), a nil filter matches every node, and *)
(* a filtered search returns only matching nodes, for metadata and filter  *)
(* values of every shape: strings, numbers, booleans, arrays of scalars.   *)
(***************************************************************************)
MatchesMetadata(n, f) ==
    \/ f.isNil
    \/ \A key \in DOMAIN f.Metadata :
          /\ key \in DOMAIN n.Metadata
          /\ n.Metadata[key] = f.Metadata[key]

C13_FilterSemantics ==
    (last.op = "search" /\ Len(last.key) = Tree.Dimensions) =>
        LET F == {pos \in RecallSet(Tree, last.key, last.epsilon, last.threshold) :
                     MatchesMetadata(NodeAt(Tree, pos), last.filter)}
        IN  /\ last.err = NoError
            /\ Range(last.results) \subseteq F
            /\ Len(last.results) = Min(last.topK, Cardinality(F))

\* the reader got what Load gives on the file f
Observed(f) ==
    /\ last.err = Load(f).err
    /\ last.results = Load(f).tree.Nodes
    /\ last.declared = Load(f).tree.Dimensions

\* C14: a process that loads the file while a flush is in progress gets either
\* the complete previous contents or the complete new contents, and after a
\* successful flush the file is the complete new contents and loads without error
C14_FlushAtomicForReaders ==
    /\ (last.op = "load" /\ saving.active)
          => (Observed(saving.previous) \/ Observed(saving.target))
    /\ (last.op = "flush" /\ last.err = NoError /\ saving.target # NoFile)
          => (file = saving.target /\ Load(file).err = NoError
              /\ Len(Load(file).tree.Nodes) = Len(Tree.Nodes))

\* C15: a flush whose write failed returns the error and leaves the cached tree
\* (nodes and permutations) as it was and the client dirty, so that the next
\* flush writes again; the dirty flag goes from set to clear only in a flush that
\* returned no error and left the complete file
C15_FailedFlushKeepsState ==
    [][/\ (last'.op = "flush" /\ last'.err # NoError)
             => /\ cachedTree' = cachedTree
                /\ Dimensions' = Dimensions
                /\ dirty' /\ cachedTree' # << >>
       /\ (dirty /\ ~dirty')
             => /\ last'.op = "flush" /\ last'.err = NoError
                /\ file' = Save(Tree)]_vars

\* a write failed in the middle of Save: Flush returned the error, the client
\* is dirty and the file holds a part of the new contents
C15_Witness ==
    /\ last.op = "flush" /\ last.err = WriteError
    /\ dirty /\ Len(Tree.Nodes) = 2
    /\ file.data # << >> /\ file # saving.target

\* C16: a successful insert writes the file exactly when the node count it
\* leaves is a multiple of 100, and the file then holds every node; any other
\* insert leaves the file untouched, and if it succeeded its node is in memory
\* only and the client is dirty
C16_InsertFlushPolicy ==
    [][last'.op = "insert"
          => IF last'.err = NoError /\ Len(Tree'.Nodes) % 100 = 0
             THEN file' = Save(Tree') /\ ~dirty' /\ file' # file
             ELSE /\ file' = file
                  /\ last'.err = NoError
                       => /\ dirty'
                          /\ Len(Tree'.Nodes) = Len(Tree.Nodes) + 1
                          /\ FileNodeCount(file') < Len(Tree'.Nodes)]_vars

\* the insert that made the node count 100 has flushed
C16_Witness ==
    /\ last.op = "insert" /\ last.err = NoError
    /\ Len(Tree.Nodes) = 100
    /\ ~dirty /\ FileNodeCount(file) = 100

\* the file is the one the uncompressed writer left for the writer's tree
Uncompressed == cachedTree # << >> /\ file = SaveBytes(Tree)

\* C17: a file written by the uncompressed writer is decoded by the
\* compression-aware loader to exactly what the plain loader decodes: the same
\* error or the same dimension and nodes
C17_CompressedLoadReadsUncompressed ==
    (last.op = "compressed_load" /\ Uncompressed)
        => /\ last.err = LoadBytes(file).err
           /\ last.results = LoadBytes(file).tree.Nodes
           /\ last.declared = LoadBytes(file).tree.Dimensions

\* the bytes of the file of t, in the variant given, up to the end of the value
\* of its last record
UpToLastValue(t, compressed) ==
    IF compressed
    THEN HeaderBytes(t) \o <<1>>
         \o writeAllCompressedBytes(SubSeq(t.Nodes, 1, Len(t.Nodes) - 1))
         \o QuantizedBytes(QuantizeVector(t.Nodes[Len(t.Nodes)].Key))
         \o Int64Bytes(Len(Utf8(t.Nodes[Len(t.Nodes)].Value)))
         \o Utf8(t.Nodes[Len(t.Nodes)].Value)
    ELSE HeaderBytes(t)
         \o writeAllBytes(SubSeq(t.Nodes, 1, Len(t.Nodes) - 1))
         \o Int32Bytes(t.Dimensions) \o KeyBytes(t.Nodes[Len(t.Nodes)].Key)
         \o Int64Bytes(Len(Utf8(t.Nodes[Len(t.Nodes)].Value)))
         \o Utf8(t.Nodes[Len(t.Nodes)].Value)

\* the same up to the end of the timestamp of the last record
UpToLastTimestamp(t, compressed) ==
    UpToLastValue(t, compressed)
    \o Int32Bytes(Len(TimeBinary(t.Nodes[Len(t.Nodes)].Timestamp)))
    \o TimeBinary(t.Nodes[Len(t.Nodes)].Timestamp)

\* the nodes a loader gives for the complete file of t, the last one without
\* metadata and, if so asked, without timestamp
WithoutOptional(t, timestamp) ==
    [i \in 1..Len(t.Nodes) |->
        IF i < Len(t.Nodes) THEN LoadBytes(SaveBytes(t)).tree.Nodes[i]
        ELSE Node(t.Nodes[i].Key, t.Nodes[i].Value, NilMetadata,
                  IF timestamp THEN LoadBytes(SaveBytes(t)).tree.Nodes[i].Timestamp
                  ELSE ZeroTime)]

\* the loader last called is the one of the variant
Loader(compressed) == last.op = (IF compressed THEN "compressed_load" ELSE "load")

\* C18: a file whose stream ends after the value bytes of its last record, or
\* after its timestamp, loads without error: the record comes back with the
\* missing timestamp and metadata empty
C18_MissingOptionalFieldsTolerated ==
    \A compressed \in BOOLEAN :
        (cachedTree # << >> /\ Len(Tree.Nodes) > 0 /\ Loader(compressed))
            => /\ file.data = UpToLastValue(Tree, compressed)
                    => /\ last.err = NoError
                       /\ last.results = WithoutOptional(Tree, FALSE)
               /\ file.data = UpToLastTimestamp(Tree, compressed)
                    => /\ last.err = NoError
                       /\ last.results = WithoutOptional(Tree, TRUE)

\* the complete file of t in the variant given
FileOf(t, compressed) == IF compressed THEN CompressedSaveBytes(t) ELSE SaveBytes(t)

\* the offsets at which a record of the file of t ends or the first one starts
RecordBoundaries(t, compressed) ==
    {IF compressed
     THEN 13 + Len(writeAllCompressedBytes(SubSeq(t.Nodes, 1, i)))
     ELSE 12 + Len(writeAllBytes(SubSeq(t.Nodes, 1, i))) : i \in 0..Len(t.Nodes)}

\* f is the file of t cut inside a record: a proper prefix that reaches beyond
\* the header and ends neither between two records nor where the stream of a
\* file without the optional fields of its last record ends
Truncated(f, t, compressed) ==
    /\ Len(t.Nodes) > 0
    /\ Len(f.data) < Len(FileOf(t, compressed).data)
    /\ f.data = SubSeq(FileOf(t, compressed).data, 1, Len(f.data))
    /\ Len(f.data) > (IF compressed THEN 13 ELSE 12)
    /\ Len(f.data) \notin RecordBoundaries(t, compressed)
    /\ Len(f.data) \notin {Len(UpToLastValue(t, compressed)),
                           Len(UpToLastTimestamp(t, compressed))}

\* f is the uncompressed file of t with the dimension count of one record
\* overwritten by another
Corrupt(f, t) ==
    \E i \in 1..Len(t.Nodes), d \in 0..2 :
        /\ d # t.Dimensions
        /\ f = Overwritten(SaveBytes(t), RecordOffset(t, i), d)

\* the file is damaged for the loader op
Damaged(f, t, op) ==
    \/ op \in {"load", "compressed_load", "mmap"} /\ (Truncated(f, t, FALSE) \/ Corrupt(f, t))
    \/ op = "compressed_load" /\ Truncated(f, t, TRUE)

\* C19: every loader returns an error on a file cut inside a record and on a
\* file with a record whose dimension count differs from the header; it then
\* exposes no collection and leaves the file as it was
C19_DecodeErrorsOnOpen ==
    [][(cachedTree # << >> /\ Damaged(file, Tree, last'.op))
          => /\ last'.err # NoError
             /\ last'.results = << >>
             /\ last'.op = "mmap" => storage' = << >>
             /\ file' = file]_vars

\* the permutation of dimension dim of the mapped file, computed from the
\* writer's nodes: sorted by the key in dim, equal keys by position
SortedPermutation(index, nodes, dim) ==
    /\ IsPermutation(index, Len(nodes))
    /\ \A i, j \in 1..Len(index) :
          i < j => \/ nodes[index[i] + 1].Key[dim] < nodes[index[j] + 1].Key[dim]
                   \/ /\ nodes[index[i] + 1].Key[dim] = nodes[index[j] + 1].Key[dim]
                      /\ index[i] < index[j]

\* C20: after the open no dimension has a permutation; a dimension gets one
\* only through a call for it; the permutation of a dimension is built at most
\* once, whatever the interleaving of the callers, and every caller that has
\* returned holds that one permutation; the mutex is held as the code says
C20_LazyBuildOnce ==
    /\ (\A g \in Goroutines : callers[g].calls = 0) => DOMAIN M.indices = {}
    /\ \A dim \in DOMAIN M.indices :
          /\ M.indices[dim].loaded /\ M.indices[dim].builds = 1
          /\ SortedPermutation(M.indices[dim].sortedIndices, Tree.Nodes, dim)
          /\ \E g \in Goroutines : callers[g].calls > 0
    /\ \A g \in Goroutines :
          callers[g].pc = "done"
              => /\ IndexLoaded(M, callers[g].dim)
                 /\ callers[g].result = M.indices[callers[g].dim].sortedIndices
    /\ M.indexMutex.writer => M.indexMutex.readers = 0

\* two goroutines have returned from calls for the same dimension, one of them
\* from its second call, and both hold the one permutation built
C20_Witness ==
    /\ callers[1].pc = "done" /\ callers[2].pc = "done"
    /\ callers[1].dim = callers[2].dim
    /\ callers[1].calls = 2
    /\ callers[1].result = callers[2].result /\ callers[1].result # << >>
    /\ DOMAIN M.indices = {callers[1].dim}


\* index with the entry at the 0-based position pos taken out
Without(index, pos) == SubSeq(index, 1, pos) \o SubSeq(index, pos + 2, Len(index))

\* pos is the lowest position of index whose node has key[dim] >= key[dim] of
\* the new node (the length of index when there is none)
LowestNotBelow(t, index, dim, key, pos) ==
    /\ pos \in 0..Len(index)
    /\ \A i \in 0..(pos - 1) : NodeAt(t, index[i + 1]).Key[dim] < key[dim]
    /\ pos < Len(index) => NodeAt(t, index[pos + 1]).Key[dim] >= key[dim]

(***************************************************************************)
(* C27.  Incremental insert: an insert into a collection whose             *)
(* permutations are present and not dirty puts the new position N into     *)
(* every index[d] at the lowest position p with key[index[d][p]][d] >=     *)
(* k[d]; the entries present before keep their relative order, index[d]    *)
(* grows by exactly one entry and stays sorted by key[d].                  *)
(***************************************************************************)
C27_IncrementalInsert ==
    [][(/\ last'.op = "insert" /\ last'.err = NoError
        /\ Len(Tree'.Nodes) = Len(Tree.Nodes) + 1
        /\ Len(Tree.Index[1]) > 0 /\ ~Tree.indexDirty)
          => /\ ~Tree'.indexDirty
             /\ \A dim \in 1..Tree.Dimensions :
                   /\ Len(Tree'.Index[dim]) = Len(Tree.Index[dim]) + 1
                   /\ SortedByKey(Tree', Tree'.Index[dim], dim)
                   /\ \E pos \in 0..Len(Tree.Index[dim]) :
                         /\ LowestNotBelow(Tree, Tree.Index[dim], dim, last'.key, pos)
                         /\ Tree'.Index[dim][pos + 1] = Len(Tree.Nodes)
                         /\ Without(Tree'.Index[dim], pos) = Tree.Index[dim]]_vars

\* an incremental insert has put the new node before an entry of equal key
\* in one dimension and behind every entry in another
C27_Witness ==
    /\ last.op = "insert" /\ last.err = NoError
    /\ ~Tree.indexDirty /\ Len(Tree.Nodes) >= 2
    /\ \E dim \in 1..Tree.Dimensions :
          \E i \in 1..(Len(Tree.Nodes) - 1) :
              /\ Tree.Index[dim][i] = Len(Tree.Nodes) - 1
              /\ NodeAt(Tree, Tree.Index[dim][i + 1]).Key[dim] = last.key[dim]
    /\ \E dim \in 1..Tree.Dimensions :
          Tree.Index[dim][Len(Tree.Nodes)] = Len(Tree.Nodes) - 1


\* the insert of this step appended a node while the permutations were empty
\* or dirty
DirtyMarkInsert ==
    /\ last'.op = "insert" /\ last'.err = NoError
    /\ Len(Tree'.Nodes) = Len(Tree.Nodes) + 1
    /\ (Len(Tree.Index[1]) = 0 \/ Tree.indexDirty)

\* every permutation holds all the nodes in order of their keys and the
\* dirty mark is off
IndexComplete(t) ==
    /\ ~t.indexDirty
    /\ \A dim \in 1..t.Dimensions :
          /\ IsPermutation(t.Index[dim], Len(t.Nodes))
          /\ SortedByKey(t, t.Index[dim], dim)

(***************************************************************************)
(* C26 as stated.  An insert that finds the permutations empty or dirty    *)
(* sets index_dirty and splices nothing; after any search on a non-empty   *)
(* collection the permutations hold all N nodes and index_dirty is false.  *)
(***************************************************************************)
C26_DirtyMarkThenRebuild_Claimed ==
    [][/\ DirtyMarkInsert => (Tree'.indexDirty /\ Tree'.Index = Tree.Index)
       /\ (last'.op = "search" /\ Tree'.Nodes # << >>) => IndexComplete(Tree')]_vars

(***************************************************************************)
(* C26 as amended.  An insert that finds the permutations empty or dirty   *)
(* sets index_dirty and splices nothing; a search whose query has D        *)
(* components rebuilds before it scans, so that after it the permutations  *)
(* hold all N nodes and index_dirty is false; a search rejected for the    *)
(* length of its query returns before the rebuild and changes nothing.     *)
(***************************************************************************)
C26_DirtyMarkThenRebuild ==
    [][/\ DirtyMarkInsert => (Tree'.indexDirty /\ Tree'.Index = Tree.Index)
       /\ (last'.op = "search" /\ Tree'.Nodes # << >>) =>
             IF Len(last'.key) = Tree'.Dimensions
             THEN /\ last'.err = NoError
                  /\ IndexComplete(Tree')
                  /\ \A pos \in DOMAIN last'.hits : pos \in Positions(Tree')
             ELSE /\ last'.err = DimensionMismatch
                  /\ Tree' = Tree]_vars

\* a search has returned nodes of a collection of two or more nodes whose
\* permutations are rebuilt and differ from the order of insertion
C26_Witness ==
    /\ last.op = "search" /\ last.err = NoError /\ last.results # << >>
    /\ Len(Tree.Nodes) >= 2 /\ IndexComplete(Tree)
    /\ \E dim \in 1..Tree.Dimensions :
          Tree.Index[dim] # [i \in 1..Len(Tree.Nodes) |-> i - 1]


\* the node stored for an item: its key, value and metadata
StoresItem(n, item) ==
    /\ n.Key = item.Key
    /\ n.Value = item.Value
    /\ n.Metadata = item.Metadata

(***************************************************************************)
(* C25.  Nodes are append-only: in every step of insert, batch_insert,     *)
(* search and flush, and when a caller writes into a key slice it passed   *)
(* to an insert earlier, the node count does not decrease, the key, value, *)
(* metadata and timestamp at every existing position stay as they are, an  *)
(* insert stores its node at position N (the count before), a batch stores *)
(* its items at N, N+1, ... in order, and nothing else adds a node.        *)
(***************************************************************************)
C25_AppendOnly ==
    [][/\ Len(Tree'.Nodes) >= Len(Tree.Nodes)
       /\ \A p \in DOMAIN Tree.Nodes : Tree'.Nodes[p] = Tree.Nodes[p]
       /\ (last'.op = "insert" /\ last'.err = NoError /\ cachedTree' # cachedTree)
             => /\ Len(Tree'.Nodes) = Len(Tree.Nodes) + 1
                /\ StoresItem(NodeAt(Tree', Len(Tree.Nodes)), last'.items[1])
       /\ (last'.op = "batch_insert" /\ last'.err = NoError /\ cachedTree' # cachedTree)
             => /\ Len(Tree'.Nodes) = Len(Tree.Nodes) + Len(last'.items)
                /\ \A i \in DOMAIN last'.items :
                      StoresItem(NodeAt(Tree', Len(Tree.Nodes) + i - 1), last'.items[i])
       /\ (last'.op \notin {"insert", "batch_insert"} \/ last'.err # NoError)
             => Len(Tree'.Nodes) = Len(Tree.Nodes)
       /\ \A i \in DOMAIN callers' :
             NodeAt(Tree', callers'[i].pos).Key = callers'[i].passed]_vars

\* the callers of an insert and of a batch insert have written into the
\* slices they passed, the collection was searched and saved, and the nodes
\* hold the keys as they were passed
C25_Witness ==
    /\ Len(Tree.Nodes) = MaxNodes /\ Len(callers) = MaxNodes
    /\ \A i \in DOMAIN callers :
          /\ callers[i].modified
          /\ callers[i].data # NodeAt(Tree, callers[i].pos).Key
    /\ file = Save(Tree)
    /\ ~Tree.indexDirty
    /\ last.op = "modify_key"


\* the sum of the squares of 510 * (result[i] - vec[i]) over the components 1..i
RECURSIVE SquaredError(_, _, _)
SquaredError(vec, result, i) ==
    IF i = 0 THEN 0
    ELSE SquaredError(vec, result, i - 1)
         + (510 * (result[i] - vec[i])) * (510 * (result[i] - vec[i]))

\* q = round(x * 255 / range), halves rounded away from zero, for x >= 0
IsRounded(q, x, range) ==
    /\ 2 * 255 * x - range < 2 * range * q
    /\ 2 * range * q <= 2 * 255 * x + range

\* the last call quantized and dequantized a vector of non-constant entries
QuantizedNonConstant ==
    /\ last.op = "quantize"
    /\ MinOf(last.key) # MaxOf(last.key)

RECURSIVE ExactSumSquares(_, _, _)
ExactSumSquares(values, others, i) ==
    IF i = 0 THEN 0
    ELSE ExactSumSquares(values, others, i - 1)
         + (values[i] - others[i]) * (values[i] - others[i])

(***************************************************************************)
(* C24.  ApproximateDistance of two quantized vectors of equal dimension   *)
(* returns sqrt(sum) * s, where sum is the exact sum of the squares of the *)
(* differences of the bytes, whatever the bytes in 0..255, and s is the    *)
(* mean of the two scales (mx - mn) / 255; for vectors of different        *)
(* dimension it returns a DimensionMismatch error.                         *)
(***************************************************************************)
C24_ApproximateDistance ==
    last.op = "approximate_distance" =>
        LET qv    == last.items[1]
            other == last.items[2]
        IN  IF qv.Dims # other.Dims
            THEN last.err = DimensionMismatch
            ELSE /\ last.err = NoError
                 /\ last.results = Uint64(ExactSumSquares(qv.Values, other.Values, qv.Dims))
                 /\ last.threshold.num * 2 * 255
                       = ((qv.Max - qv.Min) + (other.Max - other.Min)) * last.threshold.den


\* dim_value(., dim) does not decrease along index
NonDecreasing(m, index, dim) ==
    \A i \in 1..(Len(index) - 1) :
        GetDimensionValue(m, index[i], dim) <= GetDimensionValue(m, index[i + 1], dim)

(***************************************************************************)
(* C28.  The mapped view of a file written by Save of a collection of N    *)
(* nodes of dimension D agrees with the collection and with the eager      *)
(* load: node count N, dimension D, dim_value(i, d) is key[d] of the i-th  *)
(* node inserted, of get_node(i) and of the node the eager load returns at *)
(* i, and every permutation GetOrBuildIndex has built or returned is a     *)
(* permutation of 0..N-1 along which dim_value(., d) does not decrease.    *)
(***************************************************************************)
C28_MmapAgreesWithEager ==
    /\ storage # << >>
    /\ M.nodeCount = Len(Tree.Nodes)
    /\ M.dimensions = Tree.Dimensions
    /\ LoadBytes(file).err = NoError
    /\ Len(LoadBytes(file).tree.Nodes) = M.nodeCount
    /\ LoadBytes(file).tree.Dimensions = M.dimensions
    /\ \A i \in 0..(M.nodeCount - 1) :
          /\ GetNode(M, i).err = NoError
          /\ SameNode(GetNode(M, i).node, LoadBytes(file).tree.Nodes[i + 1])
          /\ \A dim \in 1..M.dimensions :
                /\ GetDimensionValue(M, i, dim) = NodeAt(Tree, i).Key[dim]
                /\ GetDimensionValue(M, i, dim) = GetNode(M, i).node.Key[dim]
                /\ GetDimensionValue(M, i, dim) = LoadBytes(file).tree.Nodes[i + 1].Key[dim]
    /\ GetNode(M, M.nodeCount).err = OutOfRange
    /\ \A dim \in DOMAIN M.indices :
          /\ IsPermutation(M.indices[dim].sortedIndices, M.nodeCount)
          /\ NonDecreasing(M, M.indices[dim].sortedIndices, dim)
    /\ \A g \in Goroutines :
          callers[g].pc = "done"
              => /\ IsPermutation(callers[g].result, M.nodeCount)
                 /\ NonDecreasing(M, callers[g].result, callers[g].dim)

\* the permutations of both dimensions of a mapped file of two different
\* nodes are built and returned, and they are not the order of insertion
C28_Witness ==
    /\ M.dimensions = 2 /\ M.nodeCount = 2
    /\ DOMAIN M.indices = {1, 2}
    /\ callers[1].pc = "done" /\ callers[2].pc = "done"
    /\ callers[1].dim # callers[2].dim
    /\ callers[1].result = <<1, 0>>
    /\ GetDimensionValue(M, 0, 1) > GetDimensionValue(M, 1, 1)


\* the file decodes to exactly the nodes of t, or holds nothing and t has none
DecodesTo(f, t) ==
    IF ~f.exists \/ f.data = << >> THEN t.Nodes = << >>
    ELSE /\ Load(f).err = NoError
         /\ Len(Load(f).tree.Nodes) = Len(t.Nodes)
         /\ \A i \in DOMAIN t.Nodes : SameNode(Load(f).tree.Nodes[i], t.Nodes[i])

(***************************************************************************)
(* C29.  Write-back cache invariant of the client: in every state reached  *)
(* by inserts and flushes, the flushes that fail included, if a tree is    *)
(* cached and the dirty flag is false then the file decodes to exactly the *)
(* node sequence of the cached tree, or the file is absent or empty and    *)
(* the cached tree has no nodes.                                           *)
(***************************************************************************)
C29_WriteBackCache ==
    (cachedTree # << >> /\ ~dirty) => DecodesTo(file, Tree)


\* the nodes of the cached collection (none when no tree is cached)
CachedNodes == IF cachedTree = << >> THEN << >> ELSE Tree.Nodes

\* C30: whenever Client.InsertWithMetadata returns an error (dimension
\* mismatch, load error, or the error of the periodic flush it triggers), the
\* cached collection holds the same nodes as before the call.
C30_FailedInsertLeavesNoTrace ==
    [][(last'.op = "insert" /\ last'.err # NoError) => CachedNodes' = CachedNodes]_vars


\* a goroutine inside a search: it reads t.indexDirty, t.Index and t.Nodes
Searching(g) == callers[g].op = "search" /\ callers[g].pc # "idle"

\* a goroutine inside RebuildIndex: it writes t.Index and t.indexDirty
Rebuilding(g) == callers[g].pc \in {"make", "sort", "clear"}

\* a goroutine inside InsertWithMetadata: it writes t.Nodes, t.Index, t.indexDirty
InInsert(g) == callers[g].op = "insert" /\ callers[g].pc # "idle"

\* C21: with no concurrent writer, concurrent searches have no conflicting
\* accesses (no search is inside RebuildIndex while another search runs), and
\* every search that has returned returned what it would return when run alone.
C21_ConcurrentReaders ==
    /\ \A g, h \in Goroutines : (g # h /\ Rebuilding(g)) => ~Searching(h)
    /\ \A g \in Goroutines :
          (callers[g].op = "search" /\ callers[g].pc = "idle")
             => callers[g].result \in callers[g].alone

\* C22: at most one goroutine mutates the tree at a time, and no search reads
\* the nodes or the permutations while a mutation (insert, rebuild) is in
\* progress.
C22_SingleWriter ==
    \A g, h \in Goroutines :
        (g # h /\ (InInsert(g) \/ Rebuilding(g)))
           => ~(InInsert(h) \/ Searching(h))

====
